---- MODULE Spec2Model ----
(***************************************************************************)
(* Deterministic Ledger Kernel (CK-0 / NK-1): receipts, receipt chain,     *)
(* budget/debt law, replay verifier and transition contract.               *)
(*                                                                         *)
(* Hashes are symbolic.  A digest is the token sequence it was computed    *)
(* from, prefixed by "h:", so that the digest function is collision-free   *)
(* and a digest can only equal a digest of the same bytes.  Canonical JSON *)
(* is the sequence of the values of the modelled keys in sorted key order; *)
(* a string-valued hash field is written with its length first, so the     *)
(* encoding is injective.                                                  *)
(***************************************************************************)
EXTENDS Integers, Sequences, FiniteSets, TLC

VARIABLES
    \* ReceiptChain (src/ck0/receipts.py)
    step_receipts, commit_receipts, last_step_hash, last_commit_hash,
    \* the last add_* call: the receipt handed in and whether the call raised
    offered, last_call,
    \* the producer: wall clock, current debt, policy bundle in force,
    \* receipts built by create_step_receipt and the policy bundle each was
    \* built under, and a second create_step_receipt call with the arguments
    \* of the last one
    clock, debt, policy_bundle, made, made_under, again, again_under,
    \* ReplayVerifier configuration and the result of verify_receipt_chain
    service_law, disturbance_policy, verdict,
    \* one evaluation of compute_budget_law: its arguments and its result
    budget_args, budget_result,
    \* one call of TransitionContract.apply: the State and descriptor passed
    \* in and the TransitionResult returned
    t_state, t_descriptor, t_result,
    \* a State object under transforms: the object (its _field_values and its
    \* cached _hash), the last set_field / with_fields / apply call on it, a
    \* second application of the same descriptor to the same State, and the
    \* number of transforms made
    x_obj, x_call, x_again, x_count,
    \* two States with the same content arranged differently, and their
    \* canonical bytes and hashes
    c_states, c_out,
    \* two values handed to ValueCanon, and their tokens
    v_in, v_out,
    \* the last DebtUnit operation: its name and arguments, and its outcome
    d_call, d_result,
    \* MerkleTree: a list of leaf hashes, a leaf index, a leaf hash to
    \* verify, and the outcome of the static method called on them
    m_leaves, m_index, m_leaf, m_out,
    \* ViolationFunctional: its contracts as evaluated at the state, its
    \* debt_scale, and the outcome of compute_debtunit
    vf_contracts, vf_scale, vf_out,
    \* ReceiptCanon: the object (strict_mode, known_keys), the fields dict in
    \* insertion order, and the outcome of the method called
    rc_self, rc_fields, rc_out,
    \* GreedyCurvScheduler.schedule: the ExecPlan, curvature_map and
    \* max_batch_size passed in, the locals ready_ops, batches and current_batch,
    \* and the position in the method
    s_plan, s_curv, s_max, s_ready, s_batches, s_current, s_pc,
    \* FailureHandler: the ExecPlan it is handed, its failures list, and the
    \* result of the last should_halt call (<<>> when none since the last
    \* handle_failure)
    f_plan, f_failures, f_halt

chainVars == <<step_receipts, commit_receipts, last_step_hash, last_commit_hash>>
callVars == <<offered, last_call>>
producerVars == <<clock, debt, policy_bundle, made, made_under, again, again_under>>
verifierVars == <<service_law, disturbance_policy, verdict>>
ledgerVars == <<chainVars, callVars, producerVars, verifierVars>>
lawVars == <<budget_args, budget_result>>
transitionVars == <<t_state, t_descriptor, t_result>>
\* the variables of the single-call specifications
stateVars == <<x_obj, x_call, x_again, x_count>>
canonVars == <<c_states, c_out>>
tokenVars == <<v_in, v_out>>
debtVars == <<d_call, d_result>>
valueVars == <<stateVars, canonVars, tokenVars, debtVars>>
merkleVars == <<m_leaves, m_index, m_leaf, m_out>>
violationVars == <<vf_contracts, vf_scale, vf_out>>
receiptCanonVars == <<rc_self, rc_fields, rc_out>>
scheduleVars == <<s_plan, s_curv, s_max, s_ready, s_batches, s_current, s_pc>>
failureVars == <<f_plan, f_failures, f_halt>>
\* the variables of the specifications of the other components
componentVars == <<merkleVars, violationVars, receiptCanonVars, scheduleVars, failureVars>>
kernelVars == <<lawVars, transitionVars, valueVars, componentVars>>
vars == <<ledgerVars, kernelVars>>
outsideMerkleVars == <<ledgerVars, lawVars, transitionVars, valueVars, violationVars, receiptCanonVars, scheduleVars, failureVars>>
outsideViolationVars == <<ledgerVars, lawVars, transitionVars, valueVars, merkleVars, receiptCanonVars, scheduleVars, failureVars>>
outsideReceiptCanonVars == <<ledgerVars, lawVars, transitionVars, valueVars, merkleVars, violationVars, scheduleVars, failureVars>>
outsideScheduleVars == <<ledgerVars, lawVars, transitionVars, valueVars, merkleVars, violationVars, receiptCanonVars, failureVars>>
outsideFailureVars == <<ledgerVars, lawVars, transitionVars, valueVars, merkleVars, violationVars, receiptCanonVars, scheduleVars>>

----------------------------------------------------------------------------
(* Bounds and example values *)

MaxClock == 1
MaxSteps == 2
MaxChain == 2
MaxVerify == 2
MaxDebt == 4
MaxDisturbance == 2
MaxSubSteps == 3

\* the end-to-end example: D0 = 100, budget 50, disturbance 0 or 10
ExampleD0 == 100
ExampleBudget == 50
ExampleDisturbance == 10

Max(a, b) == IF a >= b THEN a ELSE b
Min(a, b) == IF a <= b THEN a ELSE b

----------------------------------------------------------------------------
(* Symbolic hashes and canonical JSON tokens *)

\* Python None (the head hash of an empty chain)
NoneHash == <<"None">>
\* the "" that create_step_receipt puts in receipt_hash before hashing
EmptyHash == <<>>
\* hashes a caller may supply that no receipt hashes to
GenesisHash == <<"h:genesis">>
ForgedHash == <<"h:forged">>

\* 'h:' + hashlib.sha3_256(canonical).hexdigest()
sha3_256(canonical) == <<"h:">> \o canonical

\* json.dumps of a string value / an int value / a bool value
JsonStr(h) == <<ToString(Len(h))>> \o h
JsonInt(n) == <<ToString(n)>>
JsonBool(b) == <<IF b THEN "true" ELSE "false">>

----------------------------------------------------------------------------
(* Budget/debt law (src/ck0/budget_law.py) *)

LINEAR_CAPPED_MU_1 ==
    [policy_id |-> "CK0.service.v1.linear_capped", instance_id |-> "linear_capped.mu:1"]
LINEAR_CAPPED_MU_2 ==
    [policy_id |-> "CK0.service.v1.linear_capped", instance_id |-> "linear_capped.mu:2"]
IDENTITY_SERVICE ==
    [policy_id |-> "CK0.service.v1.identity", instance_id |-> "identity"]
QUADRATIC_ALPHA_01 ==
    [policy_id |-> "CK0.service.v1.quadratic", instance_id |-> "quadratic.alpha:0.1"]

ServiceLaws == {LINEAR_CAPPED_MU_1, LINEAR_CAPPED_MU_2, IDENTITY_SERVICE, QUADRATIC_ALPHA_01}

\* min(debt.value, int(mu * budget.value)), mu an integer Fraction
linear_capped_service(d, b, mu) == Min(d, mu * b)

\* debt if budget >= debt else DebtUnit(budget.value)
identity_service(d, b) == IF ~(b < d) THEN d ELSE b

\* quadratic_service without the cap at the debt
quadratic_service_uncapped(d, b, alpha_num, alpha_den) ==
    IF d = 0 THEN 0
    ELSE Max(0, (alpha_num * b * b) \div (alpha_den * d))

\* alpha = alpha_num / alpha_den; int() truncates a non-negative Fraction
quadratic_service(d, b, alpha_num, alpha_den) ==
    IF d = 0 THEN 0
    ELSE Max(0, Min(d, (alpha_num * b * b) \div (alpha_den * d)))

\* ServiceLaw.compute: dispatch to the service_fn of the pre-defined law
ServiceCompute(law, d, b) ==
    CASE law = LINEAR_CAPPED_MU_1 -> linear_capped_service(d, b, 1)
      [] law = LINEAR_CAPPED_MU_2 -> linear_capped_service(d, b, 2)
      [] law = IDENTITY_SERVICE -> identity_service(d, b)
      [] law = QUADRATIC_ALPHA_01 -> quadratic_service(d, b, 1, 10)

\* DisturbancePolicy: policy_id and the optional e_bar (<<>> is None)
ZERO_DISTURBANCE == [policy_id |-> "DP0", e_bar |-> <<>>]
UniformBounded(e_bar) == [policy_id |-> "DP1", e_bar |-> e_bar]
EVENT_TYPED == [policy_id |-> "DP2", e_bar |-> <<>>]
\* no policy passed to compute_budget_law (disturbance_policy=None)
NoPolicy == [policy_id |-> "None", e_bar |-> <<>>]

\* (self.e_bar or DebtUnit(0)): None and DebtUnit(0) are both falsy
EBarOrZero(p) == IF p.e_bar = <<>> THEN 0 ELSE p.e_bar[1]

\* validate_e without the DP1 branch
validate_e_no_dp1(p, e_k) == IF p.policy_id = "DP0" THEN e_k = 0 ELSE TRUE

\* DisturbancePolicy.validate_e
validate_e(p, e_k) ==
    IF p.policy_id = "DP0" THEN e_k = 0
    ELSE IF p.policy_id = "DP1" THEN (e_k = EBarOrZero(p) \/ e_k < EBarOrZero(p))
    ELSE TRUE

\* compute_budget_law with the disturbance not added to the next debt
compute_budget_law_no_disturbance(d, b, e, law, policy) ==
    LET service == ServiceCompute(law, d, b)
        debt_after_service == IF d >= service THEN d - service ELSE 0
        law_satisfied == IF policy = NoPolicy THEN TRUE ELSE validate_e(policy, e)
    IN [debt_next |-> debt_after_service,
        service |-> service,
        disturbance |-> e,
        law_satisfied |-> law_satisfied]

\* compute_budget_law -> BudgetLawResult
compute_budget_law(d, b, e, law, policy) ==
    LET service == ServiceCompute(law, d, b)
        debt_after_service == IF d >= service THEN d - service ELSE 0
        debt_next == debt_after_service + e
        law_satisfied == IF policy = NoPolicy THEN TRUE ELSE validate_e(policy, e)
    IN [debt_next |-> debt_next,
        service |-> service,
        disturbance |-> e,
        law_satisfied |-> law_satisfied]

----------------------------------------------------------------------------
(* Receipts (src/ck0/receipts.py) *)

\* StepReceipt.canonical_json: json.dumps(asdict(self), sort_keys=True); the
\* values of the modelled keys in sorted key order.  The keys held constant
\* (contracts, invariant_status, state_hash_*, transition_*, version) are
\* left out.  receipt_hash and timestamp are keys of asdict(self).
canonical_json(r) ==
    JsonInt(r.E_k) \o JsonInt(r.debt_after) \o JsonInt(r.debt_before)
    \o <<r.disturbance_policy_id>> \o JsonBool(r.law_satisfied)
    \o JsonStr(r.prev_receipt_hash) \o JsonStr(r.receipt_hash)
    \o <<r.service_instance_id, r.service_policy_id>> \o JsonInt(r.service_provided)
    \o JsonInt(r.step_index) \o JsonInt(r.timestamp)

\* StepReceipt.compute_hash
compute_hash(r) == sha3_256(canonical_json(r))

\* create_step_receipt: the dataclass is built with receipt_hash="" and the
\* timestamp default datetime.utcnow() (now), then receipt_hash is set to
\* compute_hash() of that object.
create_step_receipt(step_index, prev_hash, debt_before, debt_after, law, service_provided, disturbance_policy_id, disturbance, law_satisfied, now) ==
    LET receipt == [step_index |-> step_index,
                    receipt_hash |-> EmptyHash,
                    prev_receipt_hash |-> prev_hash,
                    debt_before |-> debt_before,
                    debt_after |-> debt_after,
                    service_policy_id |-> law.policy_id,
                    service_instance_id |-> law.instance_id,
                    service_provided |-> service_provided,
                    disturbance_policy_id |-> disturbance_policy_id,
                    E_k |-> disturbance,
                    law_satisfied |-> law_satisfied,
                    timestamp |-> now]
    IN [receipt EXCEPT !.receipt_hash = compute_hash(receipt)]

\* CommitReceipt.canonical_json (child_error_*, module_receipt_digest,
\* state_hash and version held constant and left out)
Flatten(hs) ==
    LET F[i \in 0..Len(hs)] == IF i = 0 THEN <<>> ELSE F[i - 1] \o JsonStr(hs[i])
    IN F[Len(hs)]
commit_canonical_json(c) ==
    JsonStr(c.commit_hash) \o JsonInt(c.commit_index) \o JsonStr(c.prev_commit_hash)
    \o JsonInt(Len(c.step_receipt_hashes)) \o Flatten(c.step_receipt_hashes)
    \o JsonInt(c.timestamp)

\* CommitReceipt.compute_hash
commit_compute_hash(c) == sha3_256(commit_canonical_json(c))

\* CommitReceipt(...): the dataclass constructor; timestamp defaults to
\* datetime.utcnow() (now)
CommitReceipt(commit_index, commit_hash, prev_commit_hash, step_receipt_hashes, now) ==
    [commit_index |-> commit_index,
     commit_hash |-> commit_hash,
     prev_commit_hash |-> prev_commit_hash,
     step_receipt_hashes |-> step_receipt_hashes,
     timestamp |-> now]

----------------------------------------------------------------------------
(* ReceiptChain (src/ck0/receipts.py) *)

NoCall == [op |-> "none", raised |-> FALSE]

\* add_step_receipt with the hash comparison left out
StepHashUnchecked(receipt) == FALSE

\* add_step_receipt: computed_hash != receipt.receipt_hash raises
StepHashMismatch(receipt) == compute_hash(receipt) # receipt.receipt_hash

\* add_step_receipt: the chain check, made only when a head exists
StepChainBroken(receipt) ==
    /\ last_step_hash # NoneHash
    /\ receipt.prev_receipt_hash # last_step_hash

\* add_commit_receipt: computed_hash != receipt.commit_hash raises
CommitHashMismatch(receipt) == commit_compute_hash(receipt) # receipt.commit_hash

CommitChainBroken(receipt) ==
    /\ last_commit_hash # NoneHash
    /\ receipt.prev_commit_hash # last_commit_hash

add_step_receipt(receipt) ==
    /\ Len(step_receipts) < MaxChain
    /\ offered' = <<receipt>>
    /\ IF StepHashMismatch(receipt) \/ StepChainBroken(receipt)
       THEN /\ last_call' = [op |-> "add_step_receipt", raised |-> TRUE]
            /\ UNCHANGED chainVars
       ELSE /\ last_call' = [op |-> "add_step_receipt", raised |-> FALSE]
            /\ step_receipts' = Append(step_receipts, receipt)
            /\ last_step_hash' = receipt.receipt_hash
            /\ UNCHANGED <<commit_receipts, last_commit_hash>>

add_commit_receipt(receipt) ==
    /\ Len(commit_receipts) < MaxChain
    /\ offered' = <<>>
    /\ IF CommitHashMismatch(receipt) \/ CommitChainBroken(receipt)
       THEN /\ last_call' = [op |-> "add_commit_receipt", raised |-> TRUE]
            /\ UNCHANGED chainVars
       ELSE /\ last_call' = [op |-> "add_commit_receipt", raised |-> FALSE]
            /\ commit_receipts' = Append(commit_receipts, receipt)
            /\ last_commit_hash' = receipt.commit_hash
            /\ UNCHANGED <<step_receipts, last_step_hash>>

----------------------------------------------------------------------------
(* The producer: evaluates the budget law, builds receipts with            *)
(* create_step_receipt, each linked to the hash of the previous one, and   *)
(* hands receipts to the chain.                                            *)

\* PolicyBundle.compute_digest over _to_canonical_dict (src/nk1/policy_bundle.py);
\* the bundle is modelled by its debt_scale, the other settings at their defaults
DefaultDebtScale == 1000
OtherDebtScale == 2000
PolicyBundles == {DefaultDebtScale, OtherDebtScale}
compute_digest(bundle) == sha3_256(JsonInt(bundle))

\* validate_policy_chain: all bundles have the same digest
validate_policy_chain(policy_bundles) ==
    \/ policy_bundles = <<>>
    \/ Cardinality({compute_digest(policy_bundles[i]) : i \in 1..Len(policy_bundles)}) = 1

Budgets == {0, ExampleBudget}
Disturbances == {0, ExampleDisturbance}
\* the law and the disturbance policy a producer is configured with
ProducerLaws == {LINEAR_CAPPED_MU_1, IDENTITY_SERVICE}
DisturbancePolicies == {ZERO_DISTURBANCE, UniformBounded(<<ExampleDisturbance>>)}

PrevOfMade == IF made = <<>> THEN GenesisHash ELSE made[Len(made)].receipt_hash

\* datetime.utcnow() advances between calls
Tick ==
    /\ clock < MaxClock
    /\ clock' = clock + 1
    /\ UNCHANGED <<chainVars, callVars, debt, policy_bundle, made, made_under, again, again_under, verifierVars, kernelVars>>

\* a new PolicyBundle comes into force
SwitchPolicy(bundle) ==
    /\ bundle # policy_bundle
    /\ policy_bundle' = bundle
    /\ UNCHANGED <<chainVars, callVars, clock, debt, made, made_under, again, again_under, verifierVars, kernelVars>>

\* one step: compute_budget_law, then create_step_receipt from its result
ProduceStep(budget, disturbance) ==
    /\ Len(made) < MaxSteps
    /\ LET law_result == compute_budget_law(debt, budget, disturbance, service_law, disturbance_policy)
           receipt == create_step_receipt(Len(made), PrevOfMade, debt, law_result.debt_next, service_law, law_result.service, disturbance_policy.policy_id, disturbance, law_result.law_satisfied, clock)
       IN /\ made' = Append(made, receipt)
          /\ debt' = law_result.debt_next
    /\ made_under' = Append(made_under, policy_bundle)
    /\ again' = <<>>
    /\ again_under' = <<>>
    /\ UNCHANGED <<chainVars, callVars, clock, policy_bundle, verifierVars, kernelVars>>

\* create_step_receipt called once more with the arguments of the last call
Reissue ==
    /\ made # <<>>
    /\ LET r == made[Len(made)]
       IN again' = <<create_step_receipt(r.step_index, r.prev_receipt_hash, r.debt_before, r.debt_after, service_law, r.service_provided, r.disturbance_policy_id, r.E_k, r.law_satisfied, clock)>>
    /\ again_under' = <<policy_bundle>>
    /\ UNCHANGED <<chainVars, callVars, clock, debt, policy_bundle, made, made_under, verifierVars, kernelVars>>

\* receipt.receipt_hash = receipt.compute_hash() done again by the caller
Reseal(r) == [r EXCEPT !.receipt_hash = compute_hash(r)]

\* what a caller may hand to add_step_receipt: a receipt as created, resealed,
\* or with a hash field overwritten
StepCandidates ==
    UNION {{made[i], Reseal(made[i]), [made[i] EXCEPT !.receipt_hash = ForgedHash], [made[i] EXCEPT !.prev_receipt_hash = ForgedHash], [made[i] EXCEPT !.prev_receipt_hash = ForgedHash, !.receipt_hash = ForgedHash]} : i \in 1..Len(made)}

\* commit receipts a caller may build for the current batch
CommitCandidates ==
    LET prev == IF last_commit_hash = NoneHash THEN GenesisHash ELSE last_commit_hash
        hs == [i \in 1..Len(made) |-> made[i].receipt_hash]
        unsealed == CommitReceipt(Len(commit_receipts), EmptyHash, prev, hs, clock)
        sealed == [unsealed EXCEPT !.commit_hash = commit_compute_hash(unsealed)]
    IN {sealed,
        [sealed EXCEPT !.commit_hash = commit_compute_hash(sealed)],
        [sealed EXCEPT !.commit_hash = ForgedHash],
        [sealed EXCEPT !.prev_commit_hash = ForgedHash]}

AddStep == \E receipt \in StepCandidates :
    /\ add_step_receipt(receipt)
    /\ UNCHANGED <<producerVars, verifierVars, kernelVars>>

AddCommit == \E receipt \in CommitCandidates :
    /\ add_commit_receipt(receipt)
    /\ UNCHANGED <<producerVars, verifierVars, kernelVars>>

NoVerdict == [done |-> FALSE, passed |-> FALSE, errors |-> <<>>]

\* no single call under way
NoLawArgs == [debt |-> 0, budget |-> 0, disturbance |-> 0, service_law |-> LINEAR_CAPPED_MU_1, disturbance_policy |-> NoPolicy]
NoLawResult == [done |-> FALSE, debt_next |-> 0, service |-> 0, disturbance |-> 0, law_satisfied |-> FALSE]
LawIdle == budget_args = NoLawArgs /\ budget_result = NoLawResult
TransitionIdle == t_state = <<>> /\ t_descriptor = <<>> /\ t_result = <<>>
\* no State under transforms
StateIdle == x_obj = <<>> /\ x_call = <<>> /\ x_again = <<>> /\ x_count = 0
CanonIdle == c_states = <<>> /\ c_out = <<>>
TokenIdle == v_in = <<>> /\ v_out = <<>>
DebtIdle == d_call = <<>> /\ d_result = <<>>
ValueIdle == StateIdle /\ CanonIdle /\ TokenIdle /\ DebtIdle
MerkleIdle == m_leaves = <<>> /\ m_index = 0 /\ m_leaf = <<>> /\ m_out = <<>>
ViolationIdle == vf_contracts = <<>> /\ vf_scale = 0 /\ vf_out = <<>>
ReceiptCanonIdle == rc_self = <<>> /\ rc_fields = <<>> /\ rc_out = <<>>
ScheduleIdle == s_plan = <<>> /\ s_curv = <<>> /\ s_max = 0 /\ s_ready = <<>> /\ s_batches = <<>> /\ s_current = <<>> /\ s_pc = "idle"
FailureIdle == f_plan = <<>> /\ f_failures = <<>> /\ f_halt = <<>>
ComponentIdle == MerkleIdle /\ ViolationIdle /\ ReceiptCanonIdle /\ ScheduleIdle /\ FailureIdle
KernelIdle == LawIdle /\ TransitionIdle /\ ValueIdle /\ ComponentIdle

Init ==
    /\ KernelIdle
    /\ step_receipts = <<>>
    /\ commit_receipts = <<>>
    /\ last_step_hash = NoneHash
    /\ last_commit_hash = NoneHash
    /\ offered = <<>>
    /\ last_call = NoCall
    /\ clock = 0
    /\ debt \in {ExampleD0}
    /\ policy_bundle = DefaultDebtScale
    /\ made = <<>>
    /\ made_under = <<>>
    /\ again = <<>>
    /\ again_under = <<>>
    /\ service_law \in ProducerLaws
    /\ disturbance_policy \in DisturbancePolicies
    /\ verdict = NoVerdict

\* the producer and the chain
Next ==
    \/ Tick
    \/ \E budget \in Budgets, disturbance \in Disturbances : ProduceStep(budget, disturbance)
    \/ AddStep
    \/ AddCommit

Spec == Init /\ [][Next]_vars

\* the producer alone: receipts issued at different moments and under
\* different policy bundles
NextIssue ==
    \/ Tick
    \/ \E bundle \in PolicyBundles : SwitchPolicy(bundle)
    \/ \E budget \in Budgets, disturbance \in Disturbances : ProduceStep(budget, disturbance)
    \/ Reissue

SpecIssue == Init /\ [][NextIssue]_vars

----------------------------------------------------------------------------
(* ReplayVerifier (src/ck0/verifier.py) *)

FAIL_RECEIPT_HASH == "fail_receipt_hash"
FAIL_CHAIN == "fail_chain"
FAIL_LAW == "fail_law"
FAIL_SERVICE == "fail_service"
FAIL_DISTURBANCE == "fail_disturbance"

\* VerificationError(code, message): the message names the check and the
\* receipt's own index
VerificationError(code, message, index) == [code |-> code, message |-> message, index |-> index]

When(cond, error) == IF cond THEN <<error>> ELSE <<>>

\* _verify_step_receipt, check 6: receipt.service_policy_id != self.service_law.policy_id.value
ServicePolicyMismatch(receipt, law) == receipt.service_policy_id # law.policy_id

\* _verify_step_receipt, check 7: the declared disturbance policy id and E_k
DisturbancePolicyMismatch(receipt, policy) == receipt.disturbance_policy_id # policy.policy_id
DisturbanceOutOfBounds(receipt, policy) == ~validate_e(policy, receipt.E_k)

\* _verify_step_receipt(receipt, prev_receipt); prev is <<>> for None.  The
\* budget law is evaluated with receipt.service_provided passed as the budget,
\* and only law_result.law_satisfied is read.
verify_step_receipt(receipt, prev, law, policy) ==
    LET law_result == compute_budget_law(receipt.debt_before, receipt.service_provided, receipt.E_k, law, policy)
        errors ==
            When(compute_hash(receipt) # receipt.receipt_hash,
                 VerificationError(FAIL_RECEIPT_HASH, "Receipt hash mismatch", receipt.step_index))
            \o When(prev # <<>> /\ receipt.prev_receipt_hash # prev[1].receipt_hash,
                    VerificationError(FAIL_CHAIN, "Chain broken", receipt.step_index))
            \o When(~law_result.law_satisfied,
                    VerificationError(FAIL_LAW, "Budget law violated", receipt.step_index))
            \o When(ServicePolicyMismatch(receipt, law),
                    VerificationError(FAIL_SERVICE, "Service policy mismatch", receipt.step_index))
            \o When(DisturbancePolicyMismatch(receipt, policy),
                    VerificationError(FAIL_DISTURBANCE, "Disturbance policy mismatch", receipt.step_index))
            \o When(DisturbanceOutOfBounds(receipt, policy),
                    VerificationError(FAIL_DISTURBANCE, "Disturbance out of bounds", receipt.step_index))
    IN [passed |-> Len(errors) = 0, errors |-> errors]

\* _verify_commit_receipt(receipt, prev_receipt)
verify_commit_receipt(receipt, prev) ==
    LET errors ==
            When(commit_compute_hash(receipt) # receipt.commit_hash,
                 VerificationError(FAIL_RECEIPT_HASH, "Commit hash mismatch", receipt.commit_index))
            \o When(prev # <<>> /\ receipt.prev_commit_hash # prev[1].commit_hash,
                    VerificationError(FAIL_CHAIN, "Commit chain broken", receipt.commit_index))
    IN [passed |-> Len(errors) = 0, errors |-> errors]

\* the step loop returning at the first receipt that does not pass
StepErrorsFirstOnly(steps, law, policy) ==
    LET E[i \in 0..Len(steps)] ==
            IF i = 0 THEN <<>>
            ELSE IF E[i - 1] # <<>> THEN E[i - 1]
            ELSE verify_step_receipt(steps[i], IF i > 1 THEN <<steps[i - 1]>> ELSE <<>>, law, policy).errors
    IN E[Len(steps)]

\* the step loop checking the first receipt's link against the genesis hash
StepErrorsLinkedFirst(steps, law, policy) ==
    LET E[i \in 0..Len(steps)] ==
            IF i = 0 THEN <<>>
            ELSE LET prev == IF i > 1 THEN <<steps[i - 1]>> ELSE <<[receipt_hash |-> GenesisHash]>>
                     result == verify_step_receipt(steps[i], prev, law, policy)
                 IN IF ~result.passed THEN E[i - 1] \o result.errors ELSE E[i - 1]
    IN E[Len(steps)]

\* the two loops of verify_receipt_chain: errors.extend(result.errors) for
\* every receipt whose result did not pass
StepErrors(steps, law, policy) ==
    LET E[i \in 0..Len(steps)] ==
            IF i = 0 THEN <<>>
            ELSE LET result == verify_step_receipt(steps[i], IF i > 1 THEN <<steps[i - 1]>> ELSE <<>>, law, policy)
                 IN IF ~result.passed THEN E[i - 1] \o result.errors ELSE E[i - 1]
    IN E[Len(steps)]

CommitErrors(commits) ==
    LET E[i \in 0..Len(commits)] ==
            IF i = 0 THEN <<>>
            ELSE LET result == verify_commit_receipt(commits[i], IF i > 1 THEN <<commits[i - 1]>> ELSE <<>>)
                 IN IF ~result.passed THEN E[i - 1] \o result.errors ELSE E[i - 1]
    IN E[Len(commits)]

\* verify_receipt_chain(chain) -> ReceiptVerificationResult
verify_receipt_chain(steps, commits, law, policy) ==
    LET errors == StepErrors(steps, law, policy) \o CommitErrors(commits)
    IN [done |-> TRUE, passed |-> Len(errors) = 0, errors |-> errors]

\* the verifier run on the chain object
Verify ==
    /\ ~verdict.done
    /\ verdict' = verify_receipt_chain(step_receipts, commit_receipts, service_law, disturbance_policy)
    /\ UNCHANGED <<chainVars, callVars, producerVars, service_law, disturbance_policy, kernelVars>>

----------------------------------------------------------------------------
(* Chains handed to the verifier.  chain.step_receipts and                 *)
(* chain.commit_receipts are plain lists of plain dataclasses, so a chain  *)
(* under verification may hold any receipts: honestly created ones,        *)
(* receipts recording a wrong debt_after, another policy, an inadmissible  *)
(* disturbance, a forged hash or a broken link.                            *)

VerifierLaws == {LINEAR_CAPPED_MU_1, IDENTITY_SERVICE}
VerifierPolicies == {ZERO_DISTURBANCE, UniformBounded(<<1>>), EVENT_TYPED}

\* what a receipt records: debt 2 serviced with budget 1, disturbance E_k,
\* under a service law and a disturbance policy; off is added to debt_after
RecordedFacts ==
    {[E_k |-> e, off |-> o, law |-> l, policy |-> p] :
        e \in {0, 2}, o \in {0, 1},
        l \in {LINEAR_CAPPED_MU_1}, p \in {ZERO_DISTURBANCE}}
    \cup {[E_k |-> 1, off |-> 0, law |-> IDENTITY_SERVICE, policy |-> UniformBounded(<<1>>)]}

ReceiptOf(fact, index, prev) ==
    LET law_result == compute_budget_law(2, 1, fact.E_k, fact.law, fact.policy)
    IN create_step_receipt(index, prev, 2, law_result.debt_next + fact.off, fact.law, law_result.service, fact.policy.policy_id, fact.E_k, law_result.law_satisfied, 0)

HeadOf(steps) == IF steps = <<>> THEN GenesisHash ELSE steps[Len(steps)].receipt_hash

ReceiptsAfter(steps) ==
    UNION {{ReceiptOf(f, Len(steps), prev), [ReceiptOf(f, Len(steps), prev) EXCEPT !.receipt_hash = ForgedHash]} :
            f \in RecordedFacts, prev \in {HeadOf(steps), ForgedHash}}

RECURSIVE StepChainsOfLen(_)
StepChainsOfLen(n) ==
    IF n = 0 THEN {<<>>}
    ELSE UNION {{Append(c, r) : r \in ReceiptsAfter(c)} : c \in StepChainsOfLen(n - 1)}

CommitHeadOf(commits) == IF commits = <<>> THEN GenesisHash ELSE commits[Len(commits)].commit_hash

CommitsAfter(commits) ==
    UNION {{LET unsealed == CommitReceipt(Len(commits), EmptyHash, prev, <<>>, 0)
            IN [unsealed EXCEPT !.commit_hash = commit_compute_hash(unsealed)],
            CommitReceipt(Len(commits), ForgedHash, prev, <<>>, 0)} :
            prev \in {CommitHeadOf(commits), ForgedHash}}

RECURSIVE CommitChainsOfLen(_)
CommitChainsOfLen(n) ==
    IF n = 0 THEN {<<>>}
    ELSE UNION {{Append(c, r) : r \in CommitsAfter(c)} : c \in CommitChainsOfLen(n - 1)}

InitVerify ==
    /\ KernelIdle
    /\ \E n \in 0..MaxVerify, m \in 0..MaxVerify :
        /\ n + m <= MaxVerify
        /\ step_receipts \in StepChainsOfLen(n)
        /\ commit_receipts \in CommitChainsOfLen(m)
    /\ last_step_hash = IF step_receipts = <<>> THEN NoneHash ELSE HeadOf(step_receipts)
    /\ last_commit_hash = IF commit_receipts = <<>> THEN NoneHash ELSE CommitHeadOf(commit_receipts)
    /\ offered = <<>>
    /\ last_call = NoCall
    /\ clock = 0
    /\ debt = 0
    /\ policy_bundle = DefaultDebtScale
    /\ made = <<>>
    /\ made_under = <<>>
    /\ again = <<>>
    /\ again_under = <<>>
    /\ service_law \in VerifierLaws
    /\ disturbance_policy \in VerifierPolicies
    /\ verdict = NoVerdict

NextVerify == Verify

SpecVerify == InitVerify /\ [][NextVerify]_vars

\* no chain, producer or verifier activity
LedgerIdle ==
    /\ step_receipts = <<>>
    /\ commit_receipts = <<>>
    /\ last_step_hash = NoneHash
    /\ last_commit_hash = NoneHash
    /\ offered = <<>>
    /\ last_call = NoCall
    /\ clock = 0
    /\ debt = 0
    /\ policy_bundle = DefaultDebtScale
    /\ made = <<>>
    /\ made_under = <<>>
    /\ again = <<>>
    /\ again_under = <<>>
    /\ service_law = LINEAR_CAPPED_MU_1
    /\ disturbance_policy = ZERO_DISTURBANCE
    /\ verdict = NoVerdict
OutsideMerkleIdle == LedgerIdle /\ LawIdle /\ TransitionIdle /\ ValueIdle /\ ViolationIdle /\ ReceiptCanonIdle /\ ScheduleIdle /\ FailureIdle
OutsideViolationIdle == LedgerIdle /\ LawIdle /\ TransitionIdle /\ ValueIdle /\ MerkleIdle /\ ReceiptCanonIdle /\ ScheduleIdle /\ FailureIdle
OutsideReceiptCanonIdle == LedgerIdle /\ LawIdle /\ TransitionIdle /\ ValueIdle /\ MerkleIdle /\ ViolationIdle /\ ScheduleIdle /\ FailureIdle
OutsideScheduleIdle == LedgerIdle /\ LawIdle /\ TransitionIdle /\ ValueIdle /\ MerkleIdle /\ ViolationIdle /\ ReceiptCanonIdle /\ FailureIdle
OutsideFailureIdle == LedgerIdle /\ LawIdle /\ TransitionIdle /\ ValueIdle /\ MerkleIdle /\ ViolationIdle /\ ReceiptCanonIdle /\ ScheduleIdle

----------------------------------------------------------------------------
(* One evaluation of compute_budget_law over bounded arguments *)

DebtValues == 0..MaxDebt \cup {ExampleBudget, ExampleD0}
DisturbanceValues == 0..MaxDisturbance \cup {ExampleDisturbance}
LawPolicies ==
    {ZERO_DISTURBANCE, UniformBounded(<<>>), UniformBounded(<<0>>), UniformBounded(<<1>>),
     UniformBounded(<<ExampleDisturbance>>), EVENT_TYPED, NoPolicy}

InitLaw ==
    /\ LedgerIdle
    /\ ComponentIdle
    /\ TransitionIdle
    /\ ValueIdle
    /\ budget_args \in [debt : DebtValues, budget : DebtValues, disturbance : DisturbanceValues,
                     service_law : ServiceLaws, disturbance_policy : LawPolicies]
    /\ budget_result = NoLawResult

ComputeBudgetLaw ==
    /\ ~budget_result.done
    /\ LET r == compute_budget_law(budget_args.debt, budget_args.budget, budget_args.disturbance, budget_args.service_law, budget_args.disturbance_policy)
       IN budget_result' = [done |-> TRUE, debt_next |-> r.debt_next, service |-> r.service,
                         disturbance |-> r.disturbance, law_satisfied |-> r.law_satisfied]
    /\ UNCHANGED <<ledgerVars, componentVars, transitionVars, valueVars, budget_args>>

NextLaw == ComputeBudgetLaw

SpecLaw == InitLaw /\ [][NextLaw]_vars

----------------------------------------------------------------------------
(* State (src/ck0/state_space.py) and TransitionContract                   *)
(* (src/ck0/transition.py)                                                 *)

\* A State is its _field_values: a function from field ids to values.
Fields == {"f1", "f2"}

\* State.get_field(field_id) is None
FieldMissing(state, field_id) == field_id \notin DOMAIN state

\* State.set_field: a new State, the receiver untouched; KeyError for an
\* unknown field
set_field(state, field_id, value) ==
    IF field_id \notin DOMAIN state
    THEN [ok |-> FALSE, state |-> state, error |-> <<"Unknown field">>]
    ELSE [ok |-> TRUE, state |-> [state EXCEPT ![field_id] = value], error |-> <<>>]

\* State.with_fields: the updates (dict items, in order) applied to a copy;
\* KeyError at the first unknown field
with_fields(state, updates) ==
    LET W[i \in 0..Len(updates)] ==
            IF i = 0 THEN [ok |-> TRUE, state |-> state, error |-> <<>>]
            ELSE IF ~W[i - 1].ok THEN W[i - 1]
            ELSE IF updates[i][1] \notin DOMAIN state
                 THEN [ok |-> FALSE, state |-> state, error |-> <<"Unknown field">>]
                 ELSE [ok |-> TRUE, state |-> [W[i - 1].state EXCEPT ![updates[i][1]] = updates[i][2]], error |-> <<>>]
    IN W[Len(updates)]

\* a kernel whose result depends on how many transforms were made before
example_add_kernel_counting(state, args) ==
    IF FieldMissing(state, args.field_id)
    THEN [ok |-> FALSE, state |-> state, error |-> <<"Field not found">>]
    ELSE set_field(state, args.field_id, state[args.field_id] + args.value + x_count)

\* example_add_kernel, the kernel create_example_contract registers
example_add_kernel(state, args) ==
    IF FieldMissing(state, args.field_id)
    THEN [ok |-> FALSE, state |-> state, error |-> <<"Field not found">>]
    ELSE set_field(state, args.field_id, state[args.field_id] + args.value)

\* create_example_contract()._kernels
Kernels == {"example.add"}

\* TransitionType(value): the enum's values
TransitionTypes == {"kernel_call", "field_update", "composite"}

\* What a helper of apply hands back: the new State, or the exception it
\* raised; trace lists the transition ids handed to self.apply by
\* _apply_composite, in call order.
Raise(state, error, trace) == [ok |-> FALSE, state |-> state, error |-> error, trace |-> trace]
Return(state, trace) == [ok |-> TRUE, state |-> state, error |-> <<>>, trace |-> trace]

\* _apply_kernel; kernel_id "" stands for a missing kernel_id
apply_kernel(state, descriptor) ==
    IF descriptor.kernel_id = "" THEN Raise(state, <<"kernel_id required for kernel call">>, <<>>)
    ELSE IF descriptor.kernel_id \notin Kernels THEN Raise(state, <<"Unknown kernel">>, <<>>)
    ELSE LET r == example_add_kernel(state, descriptor.args)
         IN IF r.ok THEN Return(r.state, <<>>) ELSE Raise(state, r.error, <<>>)

\* _apply_field_update
apply_field_update(state, descriptor) ==
    IF descriptor.updates = <<>> THEN Raise(state, <<"updates required for field update">>, <<>>)
    ELSE IF \E i \in 1..Len(descriptor.updates) : FieldMissing(state, descriptor.updates[i][1])
    THEN Raise(state, <<"Unknown field">>, <<>>)
    ELSE LET r == with_fields(state, descriptor.updates)
         IN IF r.ok THEN Return(r.state, <<>>) ELSE Raise(state, r.error, <<>>)

RECURSIVE apply(_, _)

\* _apply_composite with the loop leaving at the failing step instead of raising
apply_composite_break(state, descriptor) ==
    LET steps == descriptor.steps
        C[i \in 0..Len(steps)] ==
            IF i = 0 THEN [r |-> Return(state, <<>>), stopped |-> FALSE]
            ELSE IF C[i - 1].stopped THEN C[i - 1]
            ELSE IF steps[i].transition_type \notin TransitionTypes \/ steps[i].transition_id = ""
                 THEN [r |-> C[i - 1].r, stopped |-> TRUE]
                 ELSE LET result == apply(C[i - 1].r.state, steps[i])
                          trace == C[i - 1].r.trace \o <<steps[i].transition_id>> \o result.trace
                      IN IF ~result.success
                         THEN [r |-> Return(C[i - 1].r.state, trace), stopped |-> TRUE]
                         ELSE [r |-> Return(result.new_state, trace), stopped |-> FALSE]
    IN IF steps = <<>> THEN Raise(state, <<"steps required for composite transition">>, <<>>)
       ELSE C[Len(steps)].r

\* _apply_composite: each step dict becomes a TransitionDescriptor
\* (TransitionType(...) raises for an unknown type, __post_init__ for an
\* empty id) and is applied to current_state; a failed step raises
apply_composite(state, descriptor) ==
    LET steps == descriptor.steps
        C[i \in 0..Len(steps)] ==
            IF i = 0 THEN Return(state, <<>>)
            ELSE IF ~C[i - 1].ok THEN C[i - 1]
            ELSE IF steps[i].transition_type \notin TransitionTypes
                 THEN Raise(state, <<"not a valid TransitionType">>, C[i - 1].trace)
            ELSE IF steps[i].transition_id = ""
                 THEN Raise(state, <<"transition_id is required">>, C[i - 1].trace)
            ELSE LET result == apply(C[i - 1].state, steps[i])
                     trace == C[i - 1].trace \o <<steps[i].transition_id>> \o result.trace
                 IN IF ~result.success
                    THEN Raise(state, <<"Composite step failed">> \o result.error_message, trace)
                    ELSE Return(result.new_state, trace)
    IN IF steps = <<>> THEN Raise(state, <<"steps required for composite transition">>, <<>>)
       ELSE C[Len(steps)]

\* TransitionContract.apply -> TransitionResult; an exception of a helper is
\* caught and turned into success=False with new_state=state
apply(state, descriptor) ==
    LET r == CASE descriptor.transition_type = "kernel_call" -> apply_kernel(state, descriptor)
               [] descriptor.transition_type = "field_update" -> apply_field_update(state, descriptor)
               [] descriptor.transition_type = "composite" -> apply_composite(state, descriptor)
               [] OTHER -> Raise(state, <<"Unknown transition type">>, <<>>)
    IN IF r.ok
       THEN [new_state |-> r.state, success |-> TRUE, error_message |-> <<>>, trace |-> r.trace]
       ELSE [new_state |-> state, success |-> FALSE, error_message |-> r.error, trace |-> r.trace]

----------------------------------------------------------------------------
(* One call of TransitionContract.apply over bounded descriptors *)

NoArgs == [field_id |-> "", value |-> 0]

FieldUpdate(id, updates) ==
    [transition_id |-> id, transition_type |-> "field_update", kernel_id |-> "", args |-> NoArgs, updates |-> updates, steps |-> <<>>]
KernelCall(id, kernel_id, field_id, value) ==
    [transition_id |-> id, transition_type |-> "kernel_call", kernel_id |-> kernel_id, args |-> [field_id |-> field_id, value |-> value], updates |-> <<>>, steps |-> <<>>]
Composite(id, steps) ==
    [transition_id |-> id, transition_type |-> "composite", kernel_id |-> "", args |-> NoArgs, updates |-> <<>>, steps |-> steps]

\* sub-steps that succeed
GoodSteps ==
    {FieldUpdate("set1", <<<<"f1", 5>>>>),
     FieldUpdate("set12", <<<<"f1", 7>>, <<"f2", 7>>>>),
     KernelCall("add2", "example.add", "f2", 1)}

\* sub-steps that fail: unknown field, no updates, unknown or missing kernel,
\* kernel on an unknown field, no id, an unknown type
BadSteps ==
    {FieldUpdate("setx", <<<<"f1", 9>>, <<"fx", 9>>>>),
     FieldUpdate("noupd", <<>>),
     KernelCall("nokernel", "missing.kernel", "f1", 1),
     KernelCall("addx", "example.add", "fx", 1),
     [FieldUpdate("", <<<<"f1", 9>>>>) EXCEPT !.transition_id = ""],
     [FieldUpdate("bogus", <<<<"f1", 9>>>>) EXCEPT !.transition_type = "bogus"]}

LeafSteps == GoodSteps \cup BadSteps

\* a nested composite that succeeds and one that fails at its second step
NestedSteps ==
    {Composite("inner_ok", <<KernelCall("add2", "example.add", "f2", 1)>>),
     Composite("inner_bad", <<FieldUpdate("set1", <<<<"f1", 5>>>>), KernelCall("addx", "example.add", "fx", 1)>>)}

RECURSIVE StepListsOfLen(_)
StepListsOfLen(n) ==
    IF n = 0 THEN {<<>>}
    ELSE {Append(l, st) : l \in StepListsOfLen(n - 1), st \in LeafSteps \cup NestedSteps}

\* descriptors a caller can construct (a TransitionDescriptor has a
\* non-empty id and an enum type)
Descriptors ==
    {d \in LeafSteps : d.transition_id # "" /\ d.transition_type \in TransitionTypes}
    \cup UNION {{Composite("batch", l) : l \in StepListsOfLen(n)} : n \in 0..MaxSubSteps}

States == [Fields -> {0, 1}]

InitTransition ==
    /\ LedgerIdle
    /\ ComponentIdle
    /\ LawIdle
    /\ ValueIdle
    /\ t_state \in States
    /\ t_descriptor \in Descriptors
    /\ t_result = <<>>

Apply ==
    /\ t_result = <<>>
    /\ t_result' = <<apply(t_state, t_descriptor)>>
    /\ UNCHANGED <<ledgerVars, componentVars, lawVars, valueVars, t_state, t_descriptor>>

NextTransition == Apply

SpecTransition == InitTransition /\ [][NextTransition]_vars

----------------------------------------------------------------------------
(* State objects (src/ck0/state_space.py): schema, hash, validation and    *)
(* the effect of a transform on its receiver                               *)

\* FieldType.NONNEG_INT
NONNEG_INT == "nonneg"

\* field_id.encode('utf-8') as a sort key; the ids have the same length and
\* differ in their last character
FieldIdKey(field_id) ==
    CASE field_id = "f1" -> 1
      [] field_id = "f2" -> 2
      [] field_id = "f3" -> 3
      [] OTHER -> 4

\* Python sorted / list.sort with a key: stable, ascending
sorted(items, keys) ==
    LET n == Len(items)
        Before(i, j) == keys[i] < keys[j] \/ (keys[i] = keys[j] /\ i < j)
        Rank(i) == Cardinality({j \in 1..n : Before(j, i)}) + 1
    IN [r \in 1..n |-> items[CHOOSE i \in 1..n : Rank(i) = r]]

FieldDef(field_id, field_type) == [field_id |-> field_id, field_type |-> field_type]

\* FieldBlock.__post_init__ sorts the fields by field id
FieldBlock(block_id, fields) ==
    [block_id |-> block_id,
     fields |-> sorted(fields, [i \in 1..Len(fields) |-> FieldIdKey(fields[i].field_id)])]

\* create_example_state().field_blocks
ExampleBlocks == <<FieldBlock("block:public", <<FieldDef("f1", NONNEG_INT), FieldDef("f2", NONNEG_INT)>>)>>

\* a dict is the sequence of its (key, value) items in insertion order, keys
\* unique; key in d, d.get(key)
dict_has(d, key) == \E i \in 1..Len(d) : d[i][1] = key
dict_get(d, key) == d[CHOOSE i \in 1..Len(d) : d[i][1] = key][2]

\* for block in field_blocks: for field in block.fields
RECURSIVE FieldDefsOf(_)
FieldDefsOf(field_blocks) ==
    IF field_blocks = <<>> THEN <<>>
    ELSE field_blocks[1].fields \o FieldDefsOf(Tail(field_blocks))

\* the (field id, value) pairs of the schema's fields that hold a value, in
\* schema order, then sorted by field id bytes
CanonicalFields(field_blocks, field_values) ==
    LET defs == FieldDefsOf(field_blocks)
        held == SelectSeq(defs, LAMBDA f : dict_has(field_values, f.field_id))
        pairs == [i \in 1..Len(held) |-> <<held[i].field_id, dict_get(field_values, held[i].field_id)>>]
    IN sorted(pairs, [i \in 1..Len(pairs) |-> FieldIdKey(pairs[i][1])])

RECURSIVE SerializeFields(_)
SerializeFields(pairs) ==
    IF pairs = <<>> THEN <<>>
    ELSE <<pairs[1][1], ":", ToString(pairs[1][2]), ";">> \o SerializeFields(Tail(pairs))

\* State.state_hash with an empty cache: b'state_v1:' + id:repr(value); ...
compute_state_hash(field_blocks, field_values) ==
    sha3_256(<<"state_v1:">> \o SerializeFields(CanonicalFields(field_blocks, field_values)))

\* a State of the example schema whose _field_values are the function values
ExampleDict(values) == <<<<"f1", values["f1"]>>, <<"f2", values["f2"]>>>>

\* State(field_blocks=..., _field_values=dict(...), _hash=None): a new
\* object; id tells objects apart
NewState(id, values) == [id |-> id, _field_values |-> values, _hash |-> NoneHash]

\* State.state_hash(): the cached _hash when there is one
state_hash(state) ==
    IF state._hash # NoneHash THEN state._hash
    ELSE compute_state_hash(ExampleBlocks, ExampleDict(state._field_values))

\* State._check_type for the types of the example schema
check_type(value, field_type) ==
    CASE field_type = NONNEG_INT -> value >= 0
      [] field_type = "integer" -> TRUE
      [] OTHER -> FALSE

\* State.validate(): every field of the schema has a value, every value
\* belongs to a field of the schema and has the type of the first definition
\* of its field
validate(field_blocks, field_values) ==
    LET defs == FieldDefsOf(field_blocks)
    IN /\ \A i \in 1..Len(defs) : dict_has(field_values, defs[i].field_id)
       /\ \A k \in 1..Len(field_values) :
            /\ \E i \in 1..Len(defs) : defs[i].field_id = field_values[k][1]
            /\ \A i \in 1..Len(defs) :
                (defs[i].field_id = field_values[k][1] /\ \A j \in 1..(i - 1) : defs[j].field_id # field_values[k][1])
                    => check_type(field_values[k][2], defs[i].field_type)

\* The receiver's _field_values after State.set_field / State.with_fields:
\* both write to dict(self._field_values), a copy, never to the receiver.
set_field_in_place(state, field_id, value) ==
    IF field_id \in DOMAIN state THEN [state EXCEPT ![field_id] = value] ELSE state
set_field_self(state, field_id, value) == state

with_fields_in_place(state, updates) ==
    LET W[i \in 0..Len(updates)] ==
            IF i = 0 THEN [ok |-> TRUE, state |-> state]
            ELSE IF ~W[i - 1].ok THEN W[i - 1]
            ELSE IF updates[i][1] \notin DOMAIN state THEN [ok |-> FALSE, state |-> W[i - 1].state]
            ELSE [ok |-> TRUE, state |-> [W[i - 1].state EXCEPT ![updates[i][1]] = updates[i][2]]]
    IN W[Len(updates)].state
with_fields_self(state, updates) == state

\* The _field_values of the State passed to TransitionContract.apply after
\* the call: the kernel calls state.set_field, _apply_field_update calls
\* state.with_fields, _apply_composite hands state itself to its first step.
RECURSIVE apply_self(_, _)
apply_self(state, descriptor) ==
    CASE descriptor.transition_type = "kernel_call" ->
            IF descriptor.kernel_id \in Kernels /\ ~FieldMissing(state, descriptor.args.field_id)
            THEN set_field_self(state, descriptor.args.field_id, state[descriptor.args.field_id] + descriptor.args.value)
            ELSE state
      [] descriptor.transition_type = "field_update" ->
            IF descriptor.updates # <<>> /\ \A i \in 1..Len(descriptor.updates) : ~FieldMissing(state, descriptor.updates[i][1])
            THEN with_fields_self(state, descriptor.updates)
            ELSE state
      [] descriptor.transition_type = "composite" ->
            IF descriptor.steps # <<>> /\ descriptor.steps[1].transition_type \in TransitionTypes /\ descriptor.steps[1].transition_id # ""
            THEN apply_self(state, descriptor.steps[1])
            ELSE state
      [] OTHER -> state

\* validate_transition_determinism(contract, state, descriptor)
validate_transition_determinism(state, descriptor) ==
    LET result1 == apply(state, descriptor)
        result2 == apply(state, descriptor)
    IN IF ~result1.success THEN <<FALSE, "First application failed">>
       ELSE IF ~result2.success THEN <<FALSE, "Second application failed">>
       ELSE IF compute_state_hash(ExampleBlocks, ExampleDict(result1.new_state)) # compute_state_hash(ExampleBlocks, ExampleDict(result2.new_state))
            THEN <<FALSE, "Transition is non-deterministic">>
       ELSE <<TRUE, "OK">>

----------------------------------------------------------------------------
(* A State of the example schema under set_field, with_fields and apply *)

MaxTransforms == 2

\* values and field ids a caller supplies; "fx" is not a field of the schema
SuppliedValues == {-1, 0, 3}
SuppliedFields == Fields \cup {"fx"}
SuppliedUpdates ==
    {<<>>, <<<<"f1", 3>>>>, <<<<"f2", -1>>, <<"f1", 3>>>>, <<<<"f1", 3>>, <<"fx", 3>>>>}

\* descriptors a caller applies: updates and kernel calls that succeed, an
\* unknown field, no updates, an unknown and a missing kernel id, a kernel
\* that raises, composites that succeed, fail midway and have no steps
StateDescriptors ==
    {FieldUpdate("set1", <<<<"f1", 5>>>>),
     FieldUpdate("neg2", <<<<"f2", -1>>>>),
     FieldUpdate("setx", <<<<"f1", 9>>, <<"fx", 9>>>>),
     FieldUpdate("noupd", <<>>),
     KernelCall("add2", "example.add", "f2", 1),
     KernelCall("sub1", "example.add", "f1", -2),
     KernelCall("nokernel", "missing.kernel", "f1", 1),
     KernelCall("nokid", "", "f1", 1),
     KernelCall("addx", "example.add", "fx", 1),
     Composite("both", <<FieldUpdate("set1", <<<<"f1", 5>>>>), KernelCall("add2", "example.add", "f2", 1)>>),
     Composite("midway", <<FieldUpdate("set1", <<<<"f1", 5>>>>), KernelCall("addx", "example.add", "fx", 1)>>),
     Composite("nosteps", <<>>)}

\* the receiver after a call: same object, same cache, the _field_values the
\* call left in it
Receiver(values) == [x_obj EXCEPT !._field_values = values]

\* the call record: the receiver before and after with its state_hash()
\* before and after, and what the call returned
CallRecord(op, args, after, ok, result, error) ==
    [op |-> op, args |-> args, before |-> x_obj, hash_before |-> state_hash(x_obj),
     after |-> after, hash_after |-> state_hash(after),
     ok |-> ok, result |-> result, error |-> error]

\* x.state_hash() fills the cache of the object
StateHash ==
    /\ x_obj._hash = NoneHash
    /\ x_obj' = [x_obj EXCEPT !._hash = state_hash(x_obj)]
    /\ UNCHANGED <<ledgerVars, componentVars, lawVars, transitionVars, canonVars, tokenVars, debtVars, x_call, x_again, x_count>>

\* y = x.set_field(field_id, value); the caller goes on with y
SetField(field_id, value) ==
    /\ x_count < MaxTransforms
    /\ LET r == set_field(x_obj._field_values, field_id, value)
           after == Receiver(set_field_self(x_obj._field_values, field_id, value))
           result == IF r.ok THEN NewState(x_count + 1, r.state) ELSE after
       IN /\ x_call' = <<CallRecord("set_field", <<<<field_id, value>>>>, after, r.ok, result, r.error)>>
          /\ x_obj' = result
    /\ x_count' = x_count + 1
    /\ UNCHANGED <<ledgerVars, componentVars, lawVars, transitionVars, canonVars, tokenVars, debtVars, x_again>>

\* y = x.with_fields(updates)
WithFields(updates) ==
    /\ x_count < MaxTransforms
    /\ LET r == with_fields(x_obj._field_values, updates)
           after == Receiver(with_fields_self(x_obj._field_values, updates))
           result == IF r.ok THEN NewState(x_count + 1, r.state) ELSE after
       IN /\ x_call' = <<CallRecord("with_fields", updates, after, r.ok, result, r.error)>>
          /\ x_obj' = result
    /\ x_count' = x_count + 1
    /\ UNCHANGED <<ledgerVars, componentVars, lawVars, transitionVars, canonVars, tokenVars, debtVars, x_again>>

\* result = contract.apply(x, descriptor); result.new_state is x itself when
\* the call failed.  The first application is kept for a later re-application.
ApplyTo(descriptor) ==
    /\ x_count < MaxTransforms
    /\ LET r == apply(x_obj._field_values, descriptor)
           after == Receiver(apply_self(x_obj._field_values, descriptor))
           result == IF r.success THEN NewState(x_count + 1, r.new_state) ELSE after
       IN /\ x_call' = <<CallRecord("apply", descriptor, after, r.success, result, r.error_message)>>
          /\ x_obj' = result
          /\ x_again' = IF x_again = <<>>
                        THEN <<[state |-> after, descriptor |-> descriptor, success |-> r.success, hash |-> state_hash(result)]>>
                        ELSE x_again
    /\ x_count' = x_count + 1
    /\ UNCHANGED <<ledgerVars, componentVars, lawVars, transitionVars, canonVars, tokenVars, debtVars>>

\* the kept descriptor applied once more to the kept State, after other
\* transforms were made, and validate_transition_determinism on the pair
ApplyAgain ==
    /\ Len(x_again) = 1
    /\ x_count > 0
    /\ LET first == x_again[1]
           r == apply(first.state._field_values, first.descriptor)
           result == IF r.success THEN NewState(x_count + 1, r.new_state) ELSE first.state
       IN x_again' = Append(x_again, [success |-> r.success, hash |-> state_hash(result),
                                       determinism |-> validate_transition_determinism(first.state._field_values, first.descriptor)])
    /\ UNCHANGED <<ledgerVars, componentVars, lawVars, transitionVars, canonVars, tokenVars, debtVars, x_obj, x_call, x_count>>

InitState ==
    /\ LedgerIdle
    /\ ComponentIdle
    /\ LawIdle
    /\ TransitionIdle
    /\ CanonIdle
    /\ TokenIdle
    /\ DebtIdle
    /\ x_obj \in {NewState(0, values) : values \in States}
    /\ x_call = <<>>
    /\ x_again = <<>>
    /\ x_count = 0

NextState ==
    \/ StateHash
    \/ \E field_id \in SuppliedFields, value \in SuppliedValues : SetField(field_id, value)
    \/ \E updates \in SuppliedUpdates : WithFields(updates)
    \/ \E descriptor \in StateDescriptors : ApplyTo(descriptor)
    \/ ApplyAgain

SpecState == InitState /\ [][NextState]_vars

----------------------------------------------------------------------------
(* StateCanon (src/nk1/state_canon.py)                                     *)

\* canon_field_value(field_type, value) for integer-valued fields; any other
\* type hands the value back
canon_field_value(field_type, value) ==
    IF field_type \in {"integer", NONNEG_INT} THEN <<"i:", ToString(value)>>
    ELSE <<ToString(value)>>

\* sorted_fields left in schema order
sorted_fields_unsorted(state) ==
    LET defs == FieldDefsOf(state.field_blocks)
        held == SelectSeq(defs, LAMBDA f : dict_has(state._field_values, f.field_id))
    IN [i \in 1..Len(held) |->
            <<held[i].field_id, canon_field_value(held[i].field_type, dict_get(state._field_values, held[i].field_id))>>]

\* StateCanon.canon_state: sorted_fields before json.dumps
sorted_fields(state) ==
    LET defs == FieldDefsOf(state.field_blocks)
        held == SelectSeq(defs, LAMBDA f : dict_has(state._field_values, f.field_id))
        pairs == [i \in 1..Len(held) |->
                    <<held[i].field_id, canon_field_value(held[i].field_type, dict_get(state._field_values, held[i].field_id))>>]
    IN sorted(pairs, [i \in 1..Len(pairs) |-> FieldIdKey(pairs[i][1])])

RECURSIVE JsonPairs(_)
JsonPairs(pairs) ==
    IF pairs = <<>> THEN <<>>
    ELSE <<"[", pairs[1][1], ",">> \o pairs[1][2] \o <<"]">> \o JsonPairs(Tail(pairs))

\* StateCanon.canon_state(state, meta): json.dumps of the root object with
\* sorted keys canon_id, fields, float_policy, schema_id; meta is not read
canon_state(self, state, meta) ==
    <<"canon_id", "sorted_json_bytes.v1", "fields", "[">> \o JsonPairs(sorted_fields(state))
    \o <<"]", "float_policy", self.float_policy, "schema_id", self.schema_id>>

\* StateCanon.state_hash(state, meta)
canon_state_hash(self, state, meta) == sha3_256(canon_state(self, state, meta))

----------------------------------------------------------------------------
(* Two States with the same content, canonicalised *)

CanonFieldIds == {"f1", "f2", "f3"}
CanonFieldType(field_id) == IF field_id = "f2" THEN "integer" ELSE NONNEG_INT
CanonValues == {0, 7}

\* the orders in which the elements of a set can be listed
Orderings(S) == {o \in [1..Cardinality(S) -> S] : \A i, j \in 1..Cardinality(S) : o[i] = o[j] => i = j}

\* the field definitions listed in some order and cut into two blocks
BlockLayouts ==
    {<<FieldBlock("block:a", [i \in 1..cut |-> FieldDef(o[i], CanonFieldType(o[i]))]),
       FieldBlock("block:b", [i \in 1..(Len(o) - cut) |-> FieldDef(o[cut + i], CanonFieldType(o[cut + i]))])>> :
        o \in Orderings(CanonFieldIds), cut \in 0..Cardinality(CanonFieldIds)}

\* the content of a State: values for some of the fields
Contents == UNION {[held -> CanonValues] : held \in SUBSET CanonFieldIds}

\* the dicts holding a content, one per insertion order
DictsOf(content) == {[i \in 1..Len(o) |-> <<o[i], content[o[i]]>>] : o \in Orderings(DOMAIN content)}

StateMetas == {<<"None">>, <<"2024-01-01T00:00:00Z", "test">>}
StateCanons == {[schema_id |-> "id:schema.test", float_policy |-> "reject"]}

\* the reference arrangement: one block, fields and items in id order
ReferenceLayout == <<FieldBlock("block:a", <<FieldDef("f1", NONNEG_INT), FieldDef("f2", "integer"), FieldDef("f3", NONNEG_INT)>>), FieldBlock("block:b", <<>>)>>
ReferenceDict(content) ==
    LET ids == CHOOSE q \in Orderings(DOMAIN content) : \A i, j \in 1..Len(q) : i < j => FieldIdKey(q[i]) < FieldIdKey(q[j])
    IN [i \in 1..Len(ids) |-> <<ids[i], content[ids[i]]>>]

InitCanon ==
    /\ LedgerIdle
    /\ ComponentIdle
    /\ LawIdle
    /\ TransitionIdle
    /\ StateIdle
    /\ TokenIdle
    /\ DebtIdle
    /\ \E content \in Contents, layout \in BlockLayouts :
        \E d \in DictsOf(content) :
            c_states = <<[field_blocks |-> ReferenceLayout, _field_values |-> ReferenceDict(content)],
                         [field_blocks |-> layout, _field_values |-> d]>>
    /\ c_out = <<>>

\* canon_state and state_hash of both States, with and without a StateMeta
CanonBoth ==
    /\ c_out = <<>>
    /\ \E self \in StateCanons, meta \in StateMetas :
        c_out' = <<[i \in 1..2 |->
                     [bytes |-> canon_state(self, c_states[i], <<"None">>),
                      bytes_meta |-> canon_state(self, c_states[i], meta),
                      canon_hash |-> canon_state_hash(self, c_states[i], meta),
                      fields |-> sorted_fields(c_states[i]),
                      state_hash |-> compute_state_hash(c_states[i].field_blocks, c_states[i]._field_values)]]>>
    /\ UNCHANGED <<ledgerVars, componentVars, lawVars, transitionVars, stateVars, tokenVars, debtVars, c_states>>

NextCanon == CanonBoth

SpecCanon == InitCanon /\ [][NextCanon]_vars

----------------------------------------------------------------------------
(* ValueCanon (src/nk1/value_canon.py)                                     *)
(*                                                                         *)
(* A Python value is a pair <<t, v>>: t its type (int, bool, str, bytes,   *)
(* tuple, list, dict), v its content.  A str is the sequence of its        *)
(* characters, a bytes the sequence of its byte values, a tuple a pair of  *)
(* integers, a list a sequence of values, a dict the sequence of its       *)
(* (key, value) items in insertion order with str keys.                    *)

PyInt(n) == <<"int", n>>
PyBool(b) == <<"bool", b>>
PyStr(chars) == <<"str", chars>>
PyBytes(bs) == <<"bytes", bs>>
PyTuple(a, b) == <<"tuple", <<a, b>>>>
PyList(items) == <<"list", items>>
PyDict(items) == <<"dict", items>>
\* an exception leaving the call
PyRaise(what) == <<"raise", what>>

\* str(n) for an int: an optional minus sign and the decimal digits
DigitChars == <<"0", "1", "2", "3", "4", "5", "6", "7", "8", "9">>
RECURSIVE Digits(_)
Digits(n) == IF n < 10 THEN <<DigitChars[n + 1]>> ELSE Digits(n \div 10) \o <<DigitChars[(n % 10) + 1]>>
IntToStr(n) == IF n < 0 THEN <<"-">> \o Digits(-n) ELSE Digits(n)

\* int(chars): None when chars is not an optionally signed digit string
IsDigits(chars) == chars # <<>> /\ \A i \in 1..Len(chars) : \E d \in 1..10 : DigitChars[d] = chars[i]
RECURSIVE DigitsValue(_)
DigitsValue(chars) ==
    IF chars = <<>> THEN 0
    ELSE 10 * DigitsValue(SubSeq(chars, 1, Len(chars) - 1)) + (CHOOSE d \in 0..9 : DigitChars[d + 1] = chars[Len(chars)])
IsIntStr(chars) == IsDigits(chars) \/ (chars # <<>> /\ chars[1] \in {"-", "+"} /\ IsDigits(Tail(chars)))
StrToInt(chars) ==
    IF chars[1] = "-" THEN 0 - DigitsValue(Tail(chars))
    ELSE IF chars[1] = "+" THEN DigitsValue(Tail(chars))
    ELSE DigitsValue(chars)

\* unicodedata.normalize('NFC', s) over an alphabet in which U+0065 U+0301
\* composes to U+00E9
RECURSIVE NFC(_)
NFC(chars) ==
    IF Len(chars) < 2 THEN chars
    ELSE IF chars[1] = "e" /\ chars[2] = "U+0301" THEN <<"U+00E9">> \o NFC(SubSeq(chars, 3, Len(chars)))
    ELSE <<chars[1]>> \o NFC(Tail(chars))

\* base64.urlsafe_b64encode(bs).rstrip(b'='): the bits of the bytes, padded
\* with zero bits to a multiple of 6, six at a time
B64Alphabet == <<"A", "B", "C", "D", "E", "F", "G", "H", "I", "J", "K", "L", "M", "N", "O", "P", "Q", "R", "S", "T", "U", "V", "W", "X", "Y", "Z", "a", "b", "c", "d", "e", "f", "g", "h", "i", "j", "k", "l", "m", "n", "o", "p", "q", "r", "s", "t", "u", "v", "w", "x", "y", "z", "0", "1", "2", "3", "4", "5", "6", "7", "8", "9", "-", "_">>
Bit(n, k) == (n \div (2 ^ k)) % 2
RECURSIVE BitsOf(_)
BitsOf(bs) ==
    IF bs = <<>> THEN <<>>
    ELSE [k \in 1..8 |-> Bit(bs[1], 8 - k)] \o BitsOf(Tail(bs))
BitsValue(bits) ==
    LET V[i \in 0..Len(bits)] == IF i = 0 THEN 0 ELSE 2 * V[i - 1] + bits[i]
    IN V[Len(bits)]
b64encode(bs) ==
    LET bits == BitsOf(bs)
        n == (Len(bits) + 5) \div 6
        padded == bits \o [i \in 1..(6 * n - Len(bits)) |-> 0]
    IN [i \in 1..n |-> B64Alphabet[BitsValue(SubSeq(padded, 6 * i - 5, 6 * i)) + 1]]

\* parse's padding followed by base64.urlsafe_b64decode: binascii.Error for a
\* length of 1 modulo 4, otherwise the whole bytes the sextets spell
b64decode(chars) ==
    LET sextets == [i \in 1..Len(chars) |-> (CHOOSE k \in 1..64 : B64Alphabet[k] = chars[i]) - 1]
        RECURSIVE SextetBits(_)
        SextetBits(ss) == IF ss = <<>> THEN <<>> ELSE [k \in 1..6 |-> Bit(ss[1], 6 - k)] \o SextetBits(Tail(ss))
        bits == SextetBits(sextets)
        n == Len(bits) \div 8
    IN IF Len(chars) % 4 = 1 THEN PyRaise("binascii.Error")
       ELSE PyBytes([i \in 1..n |-> BitsValue(SubSeq(bits, 8 * i - 7, 8 * i))])

\* kv[0].encode('utf-8') as a sort key; dict keys are one-character strings
AsciiOrder == <<"-", "0", "1", "2", "3", "4", "5", "6", "7", "8", "9", "A", "B", "C", "D", "E", "F", "G", "H", "I", "J", "K", "L", "M", "N", "O", "P", "Q", "R", "S", "T", "U", "V", "W", "X", "Y", "Z", "_", "a", "b", "c", "d", "e", "f", "g", "h", "i", "j", "k", "l", "m", "n", "o", "p", "q", "r", "s", "t", "u", "v", "w", "x", "y", "z">>
CharKey(c) == CHOOSE k \in 1..64 : AsciiOrder[k] = c
KeyBytes(chars) == IF chars = <<>> THEN 0 ELSE CharKey(chars[1])

startswith(chars, prefix) == Len(chars) >= Len(prefix) /\ SubSeq(chars, 1, Len(prefix)) = prefix
From(chars, n) == SubSeq(chars, n + 1, Len(chars))

\* ValueCanon.canon
RECURSIVE canon(_)
canon(value) ==
    CASE value[1] = "bool" -> PyDict(<<<<<<"t">>, PyStr(<<"b", "o", "o", "l">>)>>, <<<<"v">>, value>>>>)
      [] value[1] = "int" -> PyStr(<<"i", ":">> \o IntToStr(value[2]))
      [] value[1] = "tuple" ->
            IF value[2][2] = 1 THEN PyStr(<<"q", ":", "1", ":">> \o IntToStr(value[2][1]))
            ELSE PyStr(<<"q", ":">> \o IntToStr(value[2][2]) \o <<":">> \o IntToStr(value[2][1]))
      [] value[1] = "str" -> PyStr(<<"s", ":">> \o NFC(value[2]))
      [] value[1] = "bytes" -> PyStr(<<"b", "6", "4", ":">> \o b64encode(value[2]))
      [] value[1] = "dict" ->
            LET sorted_items == sorted(value[2], [i \in 1..Len(value[2]) |-> KeyBytes(value[2][i][1])])
            IN PyList([i \in 1..Len(sorted_items) |-> PyList(<<canon(PyStr(sorted_items[i][1])), canon(sorted_items[i][2])>>)])
      [] value[1] = "list" -> PyList([i \in 1..Len(value[2]) |-> canon(value[2][i])])
      [] OTHER -> PyRaise("ValueError")

\* value[2:].split(":", 1)
SplitAtColon(chars) ==
    IF \E i \in 1..Len(chars) : chars[i] = ":"
    THEN LET i == CHOOSE i \in 1..Len(chars) : chars[i] = ":" /\ \A j \in 1..(i - 1) : chars[j] # ":"
         IN <<SubSeq(chars, 1, i - 1), From(chars, i)>>
    ELSE <<chars>>

\* ValueCanon.parse
parse(value) ==
    IF value[1] # "str" THEN value
    ELSE IF startswith(value[2], <<"i", ":">>) THEN
        IF IsIntStr(From(value[2], 2)) THEN PyInt(StrToInt(From(value[2], 2))) ELSE PyRaise("ValueError")
    ELSE IF startswith(value[2], <<"q", ":">>) THEN
        LET parts == SplitAtColon(From(value[2], 2))
        IN IF Len(parts) < 2 THEN PyRaise("IndexError")
           ELSE IF IsIntStr(parts[1]) /\ IsIntStr(parts[2]) THEN PyTuple(StrToInt(parts[2]), StrToInt(parts[1]))
           ELSE PyRaise("ValueError")
    ELSE IF startswith(value[2], <<"b", "6", "4", ":">>) THEN b64decode(From(value[2], 4))
    ELSE IF startswith(value[2], <<"s", ":">>) THEN PyStr(From(value[2], 2))
    ELSE IF value[2] = <<"t", "r", "u", "e">> THEN PyBool(TRUE)
    ELSE IF value[2] = <<"f", "a", "l", "s", "e">> THEN PyBool(FALSE)
    ELSE value

----------------------------------------------------------------------------
(* Values of every supported shape, canonicalised and parsed back *)

SupportedInts == {PyInt(n) : n \in {-12, 0, 1, 305}}
SupportedBools == {PyBool(TRUE), PyBool(FALSE)}
SupportedStrs ==
    {PyStr(<<>>), PyStr(<<"1">>), PyStr(<<"a">>), PyStr(<<"i", ":", "1">>), PyStr(<<"t", "r", "u", "e">>),
     PyStr(<<"c", "a", "f", "e", "U+0301">>), PyStr(<<"c", "a", "f", "U+00E9">>)}
SupportedBytes == {PyBytes(<<>>), PyBytes(<<0>>), PyBytes(<<255>>), PyBytes(<<104, 105>>), PyBytes(<<1, 2, 3>>), PyBytes(<<250, 251, 252, 253>>)}
SupportedRationals == {PyTuple(1, 1), PyTuple(1, 2), PyTuple(-3, 2), PyTuple(0, 1), PyTuple(5, 10)}
SupportedLists ==
    {PyList(<<>>), PyList(<<PyInt(1)>>), PyList(<<PyInt(1), PyStr(<<"a">>)>>),
     PyList(<<PyList(<<PyStr(<<"a">>), PyInt(1)>>)>>), PyList(<<PyBool(TRUE)>>)}
SupportedMaps ==
    {PyDict(<<>>), PyDict(<<<<<<"a">>, PyInt(1)>>>>),
     PyDict(<<<<<<"b">>, PyInt(1)>>, <<<<"a">>, PyStr(<<"1">>)>>>>),
     PyDict(<<<<<<"a">>, PyStr(<<"1">>)>>, <<<<"b">>, PyInt(1)>>>>)}
SupportedValues ==
    SupportedInts \cup SupportedBools \cup SupportedStrs \cup SupportedBytes
    \cup SupportedRationals \cup SupportedLists \cup SupportedMaps

InitValue ==
    /\ LedgerIdle
    /\ ComponentIdle
    /\ LawIdle
    /\ TransitionIdle
    /\ StateIdle
    /\ CanonIdle
    /\ DebtIdle
    /\ v_in \in {<<a, b>> : a \in SupportedValues, b \in SupportedValues}
    /\ v_out = <<>>

\* canon of both values, and parse of the first token
CanonAndParse ==
    /\ v_out = <<>>
    /\ v_out' = <<[token |-> canon(v_in[1]), other_token |-> canon(v_in[2]), parsed |-> parse(canon(v_in[1]))]>>
    /\ UNCHANGED <<ledgerVars, componentVars, lawVars, transitionVars, stateVars, canonVars, debtVars, v_in>>

NextValue == CanonAndParse

SpecValue == InitValue /\ [][NextValue]_vars

----------------------------------------------------------------------------
(* DebtUnit (src/ck0/debtunit.py)                                          *)

\* what an operation hands back: a value, or the exception it raised
Value(v) == [raised |-> FALSE, error |-> "", value |-> v]
Error(e) == [raised |-> TRUE, error |-> e, value |-> 0]

\* DebtUnit(value) for an int
DebtUnit(value) == IF value < 0 THEN Error("ValueError") ELSE Value(value)

Abs(n) == IF n < 0 THEN 0 - n ELSE n
RECURSIVE GCD(_, _)
GCD(a, b) == IF b = 0 THEN Abs(a) ELSE GCD(b, a % Abs(b))

\* fractions.Fraction(numerator, denominator): lowest terms, denominator > 0
Fraction(numerator, denominator) ==
    LET g == GCD(numerator, denominator)
        sign == IF denominator < 0 THEN -1 ELSE 1
    IN [numerator |-> sign * (numerator \div g), denominator |-> sign * (denominator \div g)]

\* Python's int ** int for a non-negative exponent (0 ** 0 is 1)
RECURSIVE IntPow(_, _)
IntPow(a, exp) == IF exp = 0 THEN 1 ELSE a * IntPow(a, exp - 1)

\* DebtUnit.__sub__ clamping at zero instead of raising
debtunit_sub_clamped(a, b) == DebtUnit(Max(0, a - b))

\* DebtUnit.__add__, __sub__, __mul__, __truediv__, __pow__ on the values of
\* two DebtUnits (an int exponent for __pow__)
debtunit_add(a, b) == DebtUnit(a + b)
debtunit_sub(a, b) ==
    LET result == a - b
    IN IF result < 0 THEN Error("ValueError") ELSE DebtUnit(result)
debtunit_mul(a, b) == DebtUnit(a * b)
debtunit_div(a, b) == IF b = 0 THEN Error("ZeroDivisionError") ELSE Value(Fraction(a, b))
debtunit_pow(a, exp) == IF exp < 0 THEN Error("ValueError") ELSE DebtUnit(IntPow(a, exp))

\* DebtUnit.from_fraction(frac, scale)
from_fraction(frac, scale) ==
    LET scaled == Fraction(frac.numerator * scale, frac.denominator)
        rounded == scaled.numerator \div scaled.denominator
        remainder == scaled.numerator % scaled.denominator
        adjusted == IF remainder * 2 = scaled.denominator
                    THEN IF rounded % 2 = 0 THEN rounded ELSE rounded + 1
                    ELSE IF remainder * 2 > scaled.denominator THEN rounded + 1
                    ELSE rounded
    IN DebtUnit(Max(0, adjusted))

\* int.bit_length()
RECURSIVE bit_length(_)
bit_length(n) == IF n = 0 THEN 0 ELSE 1 + bit_length(n \div 2)

\* int.to_bytes(length, 'big') and int.from_bytes(data, 'big'); a bytes
\* object is the sequence of its byte values
RECURSIVE to_bytes(_, _)
to_bytes(n, length) ==
    IF length = 0 THEN <<>> ELSE Append(to_bytes(n \div 256, length - 1), n % 256)
RECURSIVE from_bytes(_)
from_bytes(data) ==
    IF data = <<>> THEN 0
    ELSE 256 * from_bytes(SubSeq(data, 1, Len(data) - 1)) + data[Len(data)]

\* DebtUnit.canonical_bytes and DebtUnit.from_canonical_bytes
canonical_bytes(value) == to_bytes(value, (bit_length(value) + 8) \div 8)
from_canonical_bytes(data) == DebtUnit(from_bytes(data))

----------------------------------------------------------------------------
(* DebtUnit operations over bounded operands *)

MaxDebtValue == 5
ExampleScale == 1000

\* ints handed to the constructor, exponents, and the values of DebtUnits
ConstructorInts == -2..MaxDebtValue
Exponents == -1..2
DebtUnitValues == 0..MaxDebtValue

\* rationals handed to from_fraction: the documented examples 5/2, 7/2, 18/5
\* and 1/2, other ties and non-ties, and negative rationals
Fractions ==
    {Fraction(n, d) : n \in {-5, -1, 0, 1, 3, 5, 7, 18}, d \in {1, 2, 3, 5}}
Scales == {1, 2, ExampleScale}

Call(op, args, result) ==
    /\ d_call' = <<op, args>>
    /\ d_result' = result
    /\ UNCHANGED <<ledgerVars, componentVars, lawVars, transitionVars, stateVars, canonVars, tokenVars>>

Construct == \E value \in ConstructorInts : Call("DebtUnit", <<value>>, DebtUnit(value))
Add == \E a \in DebtUnitValues, b \in DebtUnitValues : Call("add", <<a, b>>, debtunit_add(a, b))
Sub == \E a \in DebtUnitValues, b \in DebtUnitValues : Call("sub", <<a, b>>, debtunit_sub(a, b))
Mul == \E a \in DebtUnitValues, b \in DebtUnitValues : Call("mul", <<a, b>>, debtunit_mul(a, b))
Div == \E a \in DebtUnitValues, b \in DebtUnitValues : Call("div", <<a, b>>, debtunit_div(a, b))
Pow == \E a \in DebtUnitValues, exp \in Exponents : Call("pow", <<a, exp>>, debtunit_pow(a, exp))
FromFraction == \E frac \in Fractions, scale \in Scales : Call("from_fraction", <<frac, scale>>, from_fraction(frac, scale))

\* values whose canonical bytes are taken: small ones and the ones around
\* the one-byte and two-byte limits
EncodedValues == DebtUnitValues \cup {127, 128, 255, 256, 257, 32768, 65535, 65536}

CanonicalBytes == \E value \in EncodedValues :
    Call("canonical_bytes", <<value>>, Value(canonical_bytes(value)))
FromCanonicalBytes == \E value \in EncodedValues :
    Call("from_canonical_bytes", <<canonical_bytes(value)>>, from_canonical_bytes(canonical_bytes(value)))

InitDebt ==
    /\ LedgerIdle
    /\ ComponentIdle
    /\ LawIdle
    /\ TransitionIdle
    /\ StateIdle
    /\ CanonIdle
    /\ TokenIdle
    /\ d_call = <<>>
    /\ d_result = <<>>

NextDebt ==
    \/ Construct \/ Add \/ Sub \/ Mul \/ Div \/ Pow \/ FromFraction
    \/ CanonicalBytes \/ FromCanonicalBytes

SpecDebt == InitDebt /\ [][NextDebt]_vars

----------------------------------------------------------------------------
(* Receipt chain: claims C1 - C4 *)

AllAdmissible == \A i \in 1..Len(made) : validate_e(disturbance_policy, made[i].E_k)

\* C3: an honestly produced chain verifies: every receipt built by
\* create_step_receipt from compute_budget_law's result has
\* receipt_hash = compute_hash(), is not rejected by add_step_receipt when
\* handed in in order, and the verifier configured with the producer's service
\* law and disturbance policy passes the chain of these receipts.  Stated for
\* the steps whose disturbance the policy admits, as in the D0 = 100 example.
C3_HonestChainVerifies ==
    AllAdmissible =>
        /\ \A i \in 1..Len(made) : made[i].receipt_hash = compute_hash(made[i])
        /\ \A i \in 1..Len(made) :
            (last_call = [op |-> "add_step_receipt", raised |-> TRUE] /\ offered = <<made[i]>>)
                => Len(step_receipts) # i - 1
        /\ verify_receipt_chain(made, <<>>, service_law, disturbance_policy).passed

\* C4: two create_step_receipt calls with the same arguments give the same
\* canonical JSON and the same receipt hash, whenever they are made.
C4_TimeIndependent ==
    again # <<>> =>
        /\ canonical_json(again[1]) = canonical_json(made[Len(made)])
        /\ again[1].receipt_hash = made[Len(made)].receipt_hash

----------------------------------------------------------------------------
(* Budget law and replay verifier: claims C5 - C9 *)

\* whether policy P accepts disturbance E, as the claim states it: DP0 only
\* E = 0, DP1 only E <= e_bar (an unset e_bar bounds E by 0), no bound
\* otherwise
Accepts(policy, e) ==
    CASE policy.policy_id = "DP0" -> e = 0
      [] policy.policy_id = "DP1" -> e <= (IF policy.e_bar = <<>> THEN 0 ELSE policy.e_bar[1])
      [] OTHER -> TRUE

\* the capped-linear mu = 1 example of the claim
IsExample(e) ==
    /\ budget_args.debt = ExampleD0
    /\ budget_args.budget = ExampleBudget
    /\ budget_args.service_law = LINEAR_CAPPED_MU_1
    /\ budget_args.disturbance = e

\* C5: compute_budget_law(D, B, E, S, P) returns service = S(D, B),
\* debt_next = max(0, D - service) + E and law_satisfied = (P accepts E);
\* capped-linear mu = 1 is min(D, B), and D = 100, B = 50 gives service 50 and
\* debt_next 50 for E = 0, 60 for E = 10.
C5_BudgetLaw ==
    budget_result.done =>
        /\ budget_result.service = ServiceCompute(budget_args.service_law, budget_args.debt, budget_args.budget)
        /\ budget_result.debt_next = Max(0, budget_args.debt - budget_result.service) + budget_args.disturbance
        /\ budget_result.law_satisfied = Accepts(budget_args.disturbance_policy, budget_args.disturbance)
        /\ budget_args.service_law = LINEAR_CAPPED_MU_1
            => budget_result.service = Min(budget_args.debt, budget_args.budget)
        /\ IsExample(0) => budget_result.service = 50 /\ budget_result.debt_next = 50
        /\ IsExample(ExampleDisturbance) => budget_result.service = 50 /\ budget_result.debt_next = 60

\* the example with a disturbance of 10 under DP0 has been evaluated
C5_Witness ==
    /\ budget_result.done
    /\ IsExample(ExampleDisturbance)
    /\ budget_args.disturbance_policy = ZERO_DISTURBANCE
    /\ budget_result.debt_next = 60
    /\ ~budget_result.law_satisfied

\* the debt_after the budget law gives from the receipt's own debt_before,
\* service and disturbance
RecomputedDebtAfter(receipt) == Max(0, receipt.debt_before - receipt.service_provided) + receipt.E_k

HasError(code, message, index) ==
    \E k \in 1..Len(verdict.errors) :
        verdict.errors[k] = VerificationError(code, message, index)

\* C6: the verifier reports a budget-law failure for every step receipt whose
\* debt_after is not the recomputed one.
C6_DebtAfterChecked ==
    verdict.done =>
        \A i \in 1..Len(step_receipts) :
            step_receipts[i].debt_after # RecomputedDebtAfter(step_receipts[i])
                => HasError(FAIL_LAW, "Budget law violated", step_receipts[i].step_index)

CountErrors(code) == Cardinality({k \in 1..Len(verdict.errors) : verdict.errors[k].code = code})

StepHashDefects == {i \in 1..Len(step_receipts) : step_receipts[i].receipt_hash # compute_hash(step_receipts[i])}
StepLinkDefects == {i \in 2..Len(step_receipts) : step_receipts[i].prev_receipt_hash # step_receipts[i - 1].receipt_hash}
CommitHashDefects == {i \in 1..Len(commit_receipts) : commit_receipts[i].commit_hash # commit_compute_hash(commit_receipts[i])}
CommitLinkDefects == {i \in 2..Len(commit_receipts) : commit_receipts[i].prev_commit_hash # commit_receipts[i - 1].commit_hash}

\* C7: one run checks every step and commit receipt: each receipt whose stored
\* hash is not its recomputed hash has its FAIL_RECEIPT_HASH error, each
\* receipt after the first whose prev hash is not its predecessor's hash has
\* its FAIL_CHAIN error, so the errors are at least as many as the defective
\* receipts, and passed is true exactly when there is no error.
C7_AccumulatesErrors ==
    verdict.done =>
        /\ \A i \in StepHashDefects : HasError(FAIL_RECEIPT_HASH, "Receipt hash mismatch", step_receipts[i].step_index)
        /\ \A i \in StepLinkDefects : HasError(FAIL_CHAIN, "Chain broken", step_receipts[i].step_index)
        /\ \A i \in CommitHashDefects : HasError(FAIL_RECEIPT_HASH, "Commit hash mismatch", commit_receipts[i].commit_index)
        /\ \A i \in CommitLinkDefects : HasError(FAIL_CHAIN, "Commit chain broken", commit_receipts[i].commit_index)
        /\ CountErrors(FAIL_RECEIPT_HASH) >= Cardinality(StepHashDefects) + Cardinality(CommitHashDefects)
        /\ CountErrors(FAIL_CHAIN) >= Cardinality(StepLinkDefects) + Cardinality(CommitLinkDefects)
        /\ Len(verdict.errors) >= Cardinality(StepHashDefects \cup StepLinkDefects) + Cardinality(CommitHashDefects \cup CommitLinkDefects)
        /\ verdict.passed <=> verdict.errors = <<>>

\* a chain of two step receipts has been verified: neither stored hash is the
\* recomputed one, the second is forged and its link is broken
C7_Witness ==
    /\ verdict.done
    /\ Len(step_receipts) = 2
    /\ StepHashDefects = {1, 2}
    /\ StepLinkDefects = {2}
    /\ step_receipts[2].receipt_hash = ForgedHash
    /\ CountErrors(FAIL_RECEIPT_HASH) = 2
    /\ CountErrors(FAIL_CHAIN) = 1

\* E_k lies outside the bound of the verifier's policy: DP0 bounds it by 0,
\* DP1 by e_bar; the other policies carry no bound on E_k alone
OutsideBound(policy, e) ==
    CASE policy.policy_id = "DP0" -> e # 0
      [] policy.policy_id = "DP1" -> e > (IF policy.e_bar = <<>> THEN 0 ELSE policy.e_bar[1])
      [] OTHER -> FALSE

C9_DigestBound ==
    (/\ again # <<>>
     /\ canonical_json(again[1]) = canonical_json(made[Len(made)])
     /\ again[1].receipt_hash = made[Len(made)].receipt_hash)
        => validate_policy_chain(<<made_under[Len(made)], again_under[1]>>)

----------------------------------------------------------------------------
(* Transition contract: claim C10 *)

\* whether a step dict of a composite becomes a TransitionDescriptor
WellFormedStep(step) == step.transition_type \in TransitionTypes /\ step.transition_id # ""

\* the State reached by applying steps 1..k one after the other, each to the
\* result of the one before
RECURSIVE StateAfter(_, _, _)
StateAfter(state, steps, k) ==
    IF k = 0 THEN state
    ELSE apply(StateAfter(state, steps, k - 1), steps[k]).new_state

StepFails(state, steps, k) ==
    \/ ~WellFormedStep(steps[k])
    \/ ~apply(StateAfter(state, steps, k - 1), steps[k]).success

\* the first failing sub-step, 0 when every sub-step succeeds
FirstFailure(state, steps) ==
    IF \E k \in 1..Len(steps) : StepFails(state, steps, k)
    THEN CHOOSE k \in 1..Len(steps) :
            /\ StepFails(state, steps, k)
            /\ \A j \in 1..(k - 1) : ~StepFails(state, steps, j)
    ELSE 0

\* the ids of the top-level sub-steps among those handed to apply: the
\* entries of the trace that are not ids of a nested composite's own steps
RECURSIVE AppliedUpTo(_, _, _)
AppliedUpTo(state, steps, k) ==
    IF k = 0 THEN <<>>
    ELSE AppliedUpTo(state, steps, k - 1)
         \o (IF WellFormedStep(steps[k])
             THEN <<steps[k].transition_id>> \o apply(StateAfter(state, steps, k - 1), steps[k]).trace
             ELSE <<>>)

\* C10: a composite applies its sub-transitions in list order, each to the
\* result of the previous one; when sub-step k is the first to fail the
\* result is success = FALSE with new_state the input State, and no sub-step
\* after k has been applied.
C10_CompositeAborts ==
    (t_result # <<>> /\ t_descriptor.transition_type = "composite" /\ t_descriptor.steps # <<>>) =>
        LET steps == t_descriptor.steps
            k == FirstFailure(t_state, steps)
            result == t_result[1]
        IN IF k = 0
           THEN /\ result.success
                /\ result.new_state = StateAfter(t_state, steps, Len(steps))
                /\ result.trace = AppliedUpTo(t_state, steps, Len(steps))
           ELSE /\ ~result.success
                /\ result.new_state = t_state
                /\ result.trace = AppliedUpTo(t_state, steps, k)

\* a three-step composite whose first step changed f1 and whose second step
\* failed has been applied
C10_Witness ==
    /\ t_result # <<>>
    /\ t_descriptor.transition_type = "composite"
    /\ Len(t_descriptor.steps) = 3
    /\ t_descriptor.steps[1] = FieldUpdate("set1", <<<<"f1", 5>>>>)
    /\ t_descriptor.steps[2] = KernelCall("addx", "example.add", "fx", 1)
    /\ t_descriptor.steps[3] = KernelCall("add2", "example.add", "f2", 1)
    /\ ~t_result[1].success
    /\ t_result[1].new_state = t_state
    /\ t_result[1].trace = <<"set1", "addx">>

----------------------------------------------------------------------------
(* State and transition contract: claims C11 - C14 *)

\* the failures the contract names: an unknown or missing kernel id, no
\* updates, an update of an unknown field, a kernel that raises
NamedFailure(values, descriptor) ==
    \/ /\ descriptor.transition_type = "kernel_call"
       /\ \/ descriptor.kernel_id \notin Kernels
          \/ descriptor.args.field_id \notin DOMAIN values
    \/ /\ descriptor.transition_type = "field_update"
       /\ \/ descriptor.updates = <<>>
          \/ \E i \in 1..Len(descriptor.updates) : descriptor.updates[i][1] \notin DOMAIN values

\* C11: every call of TransitionContract.apply returns a TransitionResult and
\* leaves the State passed in as it was, field values, cached hash and
\* state_hash(); a successful call returns a new State object; a call that
\* fails (in particular for an unknown or missing kernel id, an empty update
\* list, an update of an unknown field or an exception inside a kernel)
\* returns success=False with an error message and the input State itself.
C11_ApplyTotal ==
    (x_call # <<>> /\ x_call[1].op = "apply") =>
        LET c == x_call[1]
        IN /\ c.ok \in BOOLEAN
           /\ c.after = c.before
           /\ c.hash_after = c.hash_before
           /\ NamedFailure(c.before._field_values, c.args) => ~c.ok
           /\ IF c.ok
              THEN c.result.id # c.before.id
              ELSE c.error # <<>> /\ c.result = c.before

\* a composite applied to a State returned by an earlier transform, its hash
\* cached, failed at its second step after its first step had succeeded
C11_Witness ==
    /\ x_call # <<>>
    /\ x_call[1].op = "apply"
    /\ x_call[1].args.transition_id = "midway"
    /\ ~x_call[1].ok
    /\ x_call[1].before._hash # NoneHash
    /\ x_call[1].before.id > 0

\* C12: every State reached from a type-valid State through set_field,
\* with_fields or apply passes State.validate().
C12_TypeValid == validate(ExampleBlocks, ExampleDict(x_obj._field_values))

\* the value the updates leave in field f of a State holding values
UpdatedValue(values, updates, f) ==
    IF \E i \in 1..Len(updates) : updates[i][1] = f
    THEN updates[CHOOSE i \in 1..Len(updates) : updates[i][1] = f /\ \A j \in (i + 1)..Len(updates) : updates[j][1] # f][2]
    ELSE values[f]

\* C13: a call of set_field or with_fields raises exactly when it names a
\* field the receiver does not have; whether it raises or not the receiver
\* keeps its field values, its cache and its state_hash(); a call that
\* succeeds returns a State holding the supplied values in the named fields
\* and the receiver's values in all others.
C13_TransformFrame ==
    (x_call # <<>> /\ x_call[1].op \in {"set_field", "with_fields"}) =>
        LET c == x_call[1]
            values == c.before._field_values
        IN /\ c.after = c.before
           /\ c.hash_after = c.hash_before
           /\ c.ok <=> \A i \in 1..Len(c.args) : c.args[i][1] \in DOMAIN values
           /\ c.ok => c.result._field_values = [f \in DOMAIN values |-> UpdatedValue(values, c.args, f)]

\* set_field changed a field of a State whose hash was cached
C13_Witness ==
    /\ x_call # <<>>
    /\ x_call[1].op = "set_field"
    /\ x_call[1].ok
    /\ x_call[1].before._hash # NoneHash
    /\ x_call[1].result._field_values # x_call[1].before._field_values

----------------------------------------------------------------------------
(* Canonical state bytes: claim C15 *)

\* the same field definitions and the same (field id, value) pairs
SameContent(a, b) ==
    /\ {a._field_values[i] : i \in 1..Len(a._field_values)} = {b._field_values[i] : i \in 1..Len(b._field_values)}
    /\ LET da == FieldDefsOf(a.field_blocks)
           db == FieldDefsOf(b.field_blocks)
       IN {da[i] : i \in 1..Len(da)} = {db[i] : i \in 1..Len(db)}

\* C15: two States with the same field definitions and the same (field id,
\* value) pairs, whatever the order the values were inserted in and the order
\* the definitions were listed in, have the same canon_state bytes, the same
\* StateCanon.state_hash and the same State.state_hash; the fields in the
\* bytes are in ascending field id order; a StateMeta does not change the
\* bytes.
C15_OrderIndependent ==
    (c_out # <<>> /\ SameContent(c_states[1], c_states[2])) =>
        LET oa == c_out[1][1]
            ob == c_out[1][2]
        IN /\ oa.bytes = ob.bytes
           /\ oa.canon_hash = ob.canon_hash
           /\ oa.state_hash = ob.state_hash
           /\ oa.bytes_meta = oa.bytes
           /\ ob.bytes_meta = ob.bytes
           /\ \A i, j \in 1..Len(ob.fields) : i < j => FieldIdKey(ob.fields[i][1]) < FieldIdKey(ob.fields[j][1])

\* three values inserted in the order f3, f1, f2 into a State whose schema
\* lists f2 in its first block and f1, f3 in its second
C15_Witness ==
    /\ c_out # <<>>
    /\ Len(c_states[2]._field_values) = 3
    /\ c_states[2]._field_values[1][1] = "f3"
    /\ c_states[2]._field_values[2][1] = "f1"
    /\ Len(c_states[2].field_blocks[1].fields) = 1
    /\ c_states[2].field_blocks[1].fields[1].field_id = "f2"
    /\ c_states[1]._field_values[1][1] = "f1"
    /\ Len(c_out[1][2].fields) = 3

----------------------------------------------------------------------------
(* Value tokens: claims C16 - C17 *)

\* C16: for every supported value v, ValueCanon.parse(ValueCanon.canon(v))
\* is v.
C16_RoundTrip == v_out # <<>> => v_out[1].parsed = v_in[1]

\* Python equality of two supported values: dicts are equal when they hold
\* the same items, whatever the insertion order
SameValue(a, b) ==
    IF a[1] = "dict" /\ b[1] = "dict"
    THEN {a[2][i] : i \in 1..Len(a[2])} = {b[2][i] : i \in 1..Len(b[2])}
    ELSE a = b

\* C17: two supported values that differ in type or in value never get the
\* same canonical token.
C17_CollisionFree == (v_out # <<>> /\ ~SameValue(v_in[1], v_in[2])) => v_out[1].token # v_out[1].other_token

----------------------------------------------------------------------------
(* DebtUnit: claims C18 - C20 *)

\* C18: from_fraction rounds half-even as documented: 5/2 at scale 1000
\* gives 2000, 7/2 gives 4000, 18/5 gives 4000 and 1/2 gives 500; for every
\* non-negative rational the result is an integer nearest to frac * scale,
\* the even one of the two when frac * scale lies half-way between them.
C18_HalfEven ==
    (d_call # <<>> /\ d_call[1] = "from_fraction" /\ d_call[2][1].numerator >= 0) =>
        LET frac == d_call[2][1]
            scale == d_call[2][2]
            off == Abs(d_result.value * frac.denominator - frac.numerator * scale)
        IN /\ ~d_result.raised
           /\ (frac = Fraction(5, 2) /\ scale = ExampleScale) => d_result.value = 2000
           /\ (frac = Fraction(7, 2) /\ scale = ExampleScale) => d_result.value = 4000
           /\ (frac = Fraction(18, 5) /\ scale = ExampleScale) => d_result.value = 4000
           /\ (frac = Fraction(1, 2) /\ scale = ExampleScale) => d_result.value = 500
           /\ 2 * off <= frac.denominator
           /\ 2 * off = frac.denominator => d_result.value % 2 = 0

\* C19: a - b raises exactly when a < b and is the exact difference
\* otherwise; construction from an int raises exactly for a negative int;
\* sums and products are exact; every DebtUnit that construction, addition,
\* subtraction, multiplication or an integer power returns holds a
\* non-negative integer; division by a zero DebtUnit raises.
C19_ExactArithmetic ==
    d_call # <<>> =>
        LET op == d_call[1]
            args == d_call[2]
        IN /\ op = "sub" =>
                /\ d_result.raised <=> args[1] < args[2]
                /\ ~d_result.raised => d_result.value = args[1] - args[2]
           /\ op = "DebtUnit" => (d_result.raised <=> args[1] < 0)
           /\ op = "add" => ~d_result.raised /\ d_result.value = args[1] + args[2]
           /\ op = "mul" => ~d_result.raised /\ d_result.value = args[1] * args[2]
           /\ (op \in {"DebtUnit", "add", "sub", "mul", "pow"} /\ ~d_result.raised) => d_result.value \in Nat
           /\ (op = "div" /\ args[2] = 0) => d_result.raised

\* DebtUnit(3) - DebtUnit(5) was evaluated and raised
C19_Witness ==
    /\ d_call = <<"sub", <<3, 5>>>>
    /\ d_result.raised
    /\ d_result.error = "ValueError"

\* C20: from_fraction of a negative rational fails with an arithmetic error
\* and returns no DebtUnit.
C20_NegativeRejected ==
    (d_call # <<>> /\ d_call[1] = "from_fraction" /\ d_call[2][1].numerator < 0) => d_result.raised

\* C21: canonical_bytes is the minimal-length big-endian unsigned encoding:
\* the bytes read big-endian give the value back, a value >= 1 has a
\* non-zero first byte (128 and 255 take one byte, 256 takes two) and zero
\* takes one byte; from_canonical_bytes of the canonical bytes is the
\* DebtUnit itself.
C21_MinimalBytes ==
    /\ (d_call # <<>> /\ d_call[1] = "canonical_bytes") =>
        LET value == d_call[2][1]
            data == d_result.value
        IN /\ ~d_result.raised
           /\ Len(data) >= 1
           /\ from_bytes(data) = value
           /\ value >= 1 => data[1] # 0
           /\ value \in {128, 255} => Len(data) = 1
           /\ value = 256 => Len(data) = 2
           /\ from_canonical_bytes(data) = Value(value)
    /\ (d_call # <<>> /\ d_call[1] = "from_canonical_bytes") =>
        /\ ~d_result.raised
        /\ canonical_bytes(d_result.value) = d_call[2][1]

----------------------------------------------------------------------------
(* MerkleTree (src/nk1/receipt_canon.py) *)

\* A hash string is "h:" followed by the hex digits of the digest; a digest
\* is a sequence of symbols.  decode_hash strips the prefix, encode_hash
\* puts it back.
decode_hash(hash_str) == SubSeq(hash_str, 2, Len(hash_str))
encode_hash(hash_bytes) == <<"h:">> \o hash_bytes

\* hash_node: SHA256(L || R).  Both digests have 32 bytes, so L || R
\* determines L and R; the digest is written out as a term.
hash_node(left, right) == <<"sha256(">> \o left \o <<"|">> \o right \o <<")">>

\* one pass of the pairing loop: the parents of a level, the last node
\* paired with itself when the level has odd length
new_level(nodes) ==
    [k \in 1..((Len(nodes) + 1) \div 2) |->
        LET left == nodes[2 * k - 1]
            right == IF 2 * k <= Len(nodes) THEN nodes[2 * k] ELSE left
        IN hash_node(left, right)]

RECURSIVE reduce(_)
reduce(nodes) == IF Len(nodes) > 1 THEN reduce(new_level(nodes)) ELSE nodes

EmptyRoot == <<"00">>

compute_root(leaf_hashes) ==
    IF leaf_hashes = <<>> THEN encode_hash(EmptyRoot)
    ELSE encode_hash(reduce([k \in 1..Len(leaf_hashes) |-> decode_hash(leaf_hashes[k])])[1])

\* the proof element of one level with its side flag inverted
sibling_flipped(current_level, level_index) ==
    LET i == 2 * (level_index \div 2)
        left == current_level[i + 1]
        right == IF i + 1 < Len(current_level) THEN current_level[i + 2] ELSE left
    IN IF i = level_index THEN <<TRUE, encode_hash(right)>> ELSE <<FALSE, encode_hash(left)>>

\* the proof element of one level: (is_left_sibling, hash) of the node
\* paired with the node at level_index (counted from 0)
sibling(current_level, level_index) ==
    LET i == 2 * (level_index \div 2)
        left == current_level[i + 1]
        right == IF i + 1 < Len(current_level) THEN current_level[i + 2] ELSE left
    IN IF i = level_index THEN <<FALSE, encode_hash(right)>> ELSE <<TRUE, encode_hash(left)>>

RECURSIVE collect(_, _)
collect(current_level, level_index) ==
    IF Len(current_level) > 1
    THEN <<sibling(current_level, level_index)>> \o collect(new_level(current_level), level_index \div 2)
    ELSE <<>>

compute_proof(leaf_hashes, leaf_index) ==
    IF leaf_index < 0 \/ leaf_index >= Len(leaf_hashes) THEN Error("ValueError")
    ELSE Value(collect([k \in 1..Len(leaf_hashes) |-> decode_hash(leaf_hashes[k])], leaf_index))

RECURSIVE fold(_, _)
fold(current, proof) ==
    IF proof = <<>> THEN current
    ELSE LET is_left == proof[1][1]
             sibling_bytes == decode_hash(proof[1][2])
         IN fold(IF is_left THEN hash_node(sibling_bytes, current) ELSE hash_node(current, sibling_bytes), Tail(proof))

verify_proof(leaf_hash, proof, root) == encode_hash(fold(decode_hash(leaf_hash), proof)) = root

----------------------------------------------------------------------------
(* MerkleTree calls over bounded leaf lists *)

MaxLeaves == 4

LeafHashes == {encode_hash(<<x>>) : x \in {"aa", "bb", "cc"}}
LeafLists == UNION {[1..n -> LeafHashes] : n \in 1..MaxLeaves}

ComputeRoot ==
    /\ m_out = <<>>
    /\ m_out' = <<"compute_root", Value(compute_root(m_leaves))>>
    /\ UNCHANGED <<outsideMerkleVars, m_leaves, m_index, m_leaf>>

ComputeProof ==
    /\ m_out = <<>>
    /\ m_out' = <<"compute_proof", compute_proof(m_leaves, m_index)>>
    /\ UNCHANGED <<outsideMerkleVars, m_leaves, m_index, m_leaf>>

\* verify_proof of m_leaf against the proof for m_index and the root
VerifyProof ==
    /\ m_out = <<>>
    /\ ~compute_proof(m_leaves, m_index).raised
    /\ m_out' = <<"verify_proof", Value(verify_proof(m_leaf, compute_proof(m_leaves, m_index).value, compute_root(m_leaves)))>>
    /\ UNCHANGED <<outsideMerkleVars, m_leaves, m_index, m_leaf>>

InitMerkle ==
    /\ OutsideMerkleIdle
    /\ m_leaves \in LeafLists
    /\ m_index \in -1..MaxLeaves
    /\ m_leaf \in LeafHashes
    /\ m_out = <<>>

NextMerkle == ComputeRoot \/ ComputeProof \/ VerifyProof

SpecMerkle == InitMerkle /\ [][NextMerkle]_vars

----------------------------------------------------------------------------
(* MerkleTree: claims C22 and C26 *)

\* C22: for a non-empty list and a valid index, verify_proof of a leaf hash
\* against compute_proof(leaves, i) and compute_root(leaves) is true exactly
\* when the leaf hash is leaves[i] (lists of odd length included); the root
\* of a one-leaf list is that leaf.
C22_ProofVerifies ==
    /\ (m_out # <<>> /\ m_out[1] = "verify_proof") =>
        (m_out[2].value <=> m_leaf = m_leaves[m_index + 1])
    /\ (m_out # <<>> /\ m_out[1] = "compute_root" /\ Len(m_leaves) = 1) =>
        m_out[2].value = m_leaves[1]
    /\ (m_out # <<>> /\ m_out[1] = "compute_proof") =>
        (m_out[2].raised <=> (m_index < 0 \/ m_index >= Len(m_leaves)))

\* the last leaf of a three-leaf list with three different leaves was
\* verified against its proof and the root
C22_Witness ==
    /\ m_out # <<>>
    /\ m_out[1] = "verify_proof"
    /\ Len(m_leaves) = 3
    /\ m_index = 2
    /\ m_leaves[1] # m_leaves[2] /\ m_leaves[2] # m_leaves[3] /\ m_leaves[1] # m_leaves[3]
    /\ m_leaf = m_leaves[3]
    /\ m_out[2].value

\* C26: no other non-empty list of leaf hashes, of the same or of another
\* length, has the root that compute_root gave for this list.
C26_RootCommits ==
    (m_out # <<>> /\ m_out[1] = "compute_root") =>
        \A other \in LeafLists : other # m_leaves => compute_root(other) # m_out[2].value

----------------------------------------------------------------------------
(* Service laws: claim C23 *)

\* C23: for each pre-defined service law S, S(0, B) = 0, S(D, B) <= D, and
\* S(D, B) <= S(D, B') for every budget B' >= B; capped-linear with mu = 1
\* and mu = 2 is min(D, mu * B).
C23_ServiceLawAxioms ==
    budget_result.done =>
        LET S == budget_args.service_law
            D == budget_args.debt
            B == budget_args.budget
        IN /\ D = 0 => budget_result.service = 0
           /\ budget_result.service <= D
           /\ budget_result.service >= 0
           /\ \A B2 \in DebtValues : B2 >= B => budget_result.service <= ServiceCompute(S, D, B2)
           /\ S = LINEAR_CAPPED_MU_1 => budget_result.service = Min(D, B)
           /\ S = LINEAR_CAPPED_MU_2 => budget_result.service = Min(D, 2 * B)

\* the quadratic law was evaluated at D = 100, B = 50 and served 2, less
\* than it serves at B = 100
C23_Witness ==
    /\ budget_result.done
    /\ budget_args.service_law = QUADRATIC_ALPHA_01
    /\ budget_args.debt = ExampleD0
    /\ budget_args.budget = ExampleBudget
    /\ budget_result.service = 2
    /\ ServiceCompute(QUADRATIC_ALPHA_01, ExampleD0, ExampleD0) = 10

----------------------------------------------------------------------------
(* ViolationFunctional (src/ck0/violation.py) *)

\* Fraction arithmetic
FracAdd(a, b) == Fraction(a.numerator * b.denominator + b.numerator * a.denominator, a.denominator * b.denominator)
FracMul(a, b) == Fraction(a.numerator * b.numerator, a.denominator * b.denominator)
FracDiv(a, b) == Fraction(a.numerator * b.denominator, a.denominator * b.numerator)

\* A Contract with its residual_fn and sigma_fn evaluated at the state: the
\* residual is <<"Fraction", r>> or <<"tuple", <<r_1, ..., r_m>>>>
Contract(contract_id, residual, weight, sigma, m_k) ==
    [contract_id |-> contract_id, residual |-> residual, weight |-> weight, sigma |-> sigma, m_k |-> m_k]

RECURSIVE SumOfSquares(_)
SumOfSquares(r) ==
    IF r = <<>> THEN Fraction(0, 1) ELSE FracAdd(FracMul(r[1], r[1]), SumOfSquares(Tail(r)))

\* Contract.compute_normalized_residual_squared, compute_sigma included
compute_normalized_residual_squared(contract) ==
    LET r == contract.residual
        sigma == contract.sigma
    IN IF sigma.numerator <= 0 THEN Error("ValueError")
       ELSE IF contract.m_k = 1 THEN Value(FracDiv(FracMul(r[2], r[2]), FracMul(sigma, sigma)))
       ELSE IF r[1] # "tuple" THEN Error("ValueError")
       ELSE Value(FracDiv(SumOfSquares(r[2]), FracMul(sigma, sigma)))

\* ViolationFunctional.compute_rational: total after the contracts from
\* position k on
RECURSIVE compute_rational_from(_, _, _)
compute_rational_from(contracts, k, total) ==
    IF k > Len(contracts) THEN Value(total)
    ELSE LET residual_squared == compute_normalized_residual_squared(contracts[k])
         IN IF residual_squared.raised THEN residual_squared
            ELSE compute_rational_from(contracts, k + 1, FracAdd(total, FracMul(residual_squared.value, contracts[k].weight)))

compute_rational(contracts) == compute_rational_from(contracts, 1, Fraction(0, 1))

\* compute_debtunit rounding every contract's contribution on its own
RECURSIVE compute_debtunit_per_contract(_, _)
compute_debtunit_per_contract(contracts, debt_scale) ==
    IF contracts = <<>> THEN Value(0)
    ELSE LET first == compute_rational(<<contracts[1]>>)
             rest == compute_debtunit_per_contract(Tail(contracts), debt_scale)
         IN IF first.raised THEN first
            ELSE IF rest.raised THEN rest
            ELSE Value(from_fraction(first.value, debt_scale).value + rest.value)

\* ViolationFunctional.compute_debtunit
compute_debtunit(contracts, debt_scale) ==
    LET rational_v == compute_rational(contracts)
    IN IF rational_v.raised THEN rational_v ELSE from_fraction(rational_v.value, debt_scale)

----------------------------------------------------------------------------
(* One evaluation of compute_debtunit over bounded functionals *)

MaxContracts == 2

Weights == {Fraction(1, 1), Fraction(1, 2)}
Residuals == {<<"Fraction", Fraction(0, 1)>>, <<"Fraction", Fraction(1, 1)>>, <<"Fraction", Fraction(-3, 2)>>}
Sigmas == {Fraction(1, 1), Fraction(2, 1), Fraction(0, 1), Fraction(-1, 1)}
\* contracts with a scalar residual, and two with m_k = 2
Contracts ==
    {Contract("c", r, w, s, 1) : r \in Residuals, w \in Weights, s \in Sigmas}
    \cup {Contract("c", <<"tuple", <<Fraction(1, 1), Fraction(1, 2)>>>>, Fraction(1, 1), Fraction(1, 1), 2),
          Contract("c", <<"Fraction", Fraction(1, 1)>>, Fraction(1, 1), Fraction(1, 1), 2)}
ContractLists == UNION {[1..n -> Contracts] : n \in 0..MaxContracts}
DebtScales == {1, 2, ExampleScale}

ComputeDebtUnit ==
    /\ vf_out = <<>>
    /\ vf_out' = <<compute_debtunit(vf_contracts, vf_scale)>>
    /\ UNCHANGED <<outsideViolationVars, vf_contracts, vf_scale>>

InitViolation ==
    /\ OutsideViolationIdle
    /\ vf_contracts \in ContractLists
    /\ vf_scale \in DebtScales
    /\ vf_out = <<>>

NextViolation == ComputeDebtUnit

SpecViolation == InitViolation /\ [][NextViolation]_vars

----------------------------------------------------------------------------
(* ViolationFunctional: claim C24 *)

\* the contributions weight * (residual / sigma)^2 of scalar contracts with
\* positive sigma, added over the common denominator without reducing
TermNum(c) == c.weight.numerator * c.residual[2].numerator * c.residual[2].numerator * c.sigma.denominator * c.sigma.denominator
TermDen(c) == c.weight.denominator * c.residual[2].denominator * c.residual[2].denominator * c.sigma.numerator * c.sigma.numerator
RECURSIVE SumDen(_)
SumDen(contracts) == IF contracts = <<>> THEN 1 ELSE TermDen(contracts[1]) * SumDen(Tail(contracts))
RECURSIVE SumNum(_)
SumNum(contracts) ==
    IF contracts = <<>> THEN 0
    ELSE TermNum(contracts[1]) * SumDen(Tail(contracts)) + SumNum(Tail(contracts)) * TermDen(contracts[1])

AllScalar == \A k \in 1..Len(vf_contracts) : vf_contracts[k].m_k = 1
SomeSigmaNotPositive == \E k \in 1..Len(vf_contracts) : vf_contracts[k].sigma.numerator <= 0

\* C24: compute_debtunit raises when some contract's sigma is <= 0;
\* otherwise, for scalar contracts, it returns the integer nearest to
\* debt_scale times the exact sum of weight * (residual / sigma)^2, the
\* even one at a tie, and never a negative value.
C24_SingleRounding ==
    vf_out # <<>> =>
        /\ SomeSigmaNotPositive => vf_out[1].raised
        /\ (AllScalar /\ ~SomeSigmaNotPositive) =>
            LET off == Abs(vf_out[1].value * SumDen(vf_contracts) - SumNum(vf_contracts) * vf_scale)
            IN /\ ~vf_out[1].raised
               /\ vf_out[1].value >= 0
               /\ 2 * off <= SumDen(vf_contracts)
               /\ 2 * off = SumDen(vf_contracts) => vf_out[1].value % 2 = 0

\* two contracts contributing 1/8 and 9/8 at debt_scale 2: the sum 5/4
\* scaled to 5/2 is a tie and rounds to 2
C24_Witness ==
    /\ vf_out # <<>>
    /\ vf_scale = 2
    /\ vf_contracts = <<Contract("c", <<"Fraction", Fraction(1, 1)>>, Fraction(1, 2), Fraction(2, 1), 1),
                        Contract("c", <<"Fraction", Fraction(-3, 2)>>, Fraction(1, 2), Fraction(1, 1), 1)>>
    /\ vf_out[1] = Value(2)

----------------------------------------------------------------------------
(* ReceiptCanon (src/nk1/receipt_canon.py) *)

CANON_RECEIPT_ID == <<"c", "a", "n", "o", "n", "_", "r", "e", "c", "e", "i", "p", "t", "_", "b", "y", "t", "e", "s", ".", "v", "1">>
OP_LOCAL == <<"o", "p", ".", "l", "o", "c", "a", "l", ".", "v", "1">>
OP_COMMIT == <<"o", "p", ".", "c", "o", "m", "m", "i", "t", ".", "v", "1">>

\* a.encode('utf-8') < b.encode('utf-8') for strings over AsciiOrder
RECURSIVE BytesLess(_, _)
BytesLess(a, b) ==
    IF b = <<>> THEN FALSE
    ELSE IF a = <<>> THEN TRUE
    ELSE IF a[1] = b[1] THEN BytesLess(Tail(a), Tail(b))
    ELSE CharKey(a[1]) < CharKey(b[1])

\* sorted(d.items(), key=lambda kv: kv[0].encode('utf-8')) for a dict given
\* as its items in insertion order
sorted_items(items) ==
    LET n == Len(items)
        Before(i, j) == BytesLess(items[i][1], items[j][1]) \/ (items[i][1] = items[j][1] /\ i < j)
        Rank(i) == Cardinality({j \in 1..n : Before(j, i)}) + 1
    IN [r \in 1..n |-> items[CHOOSE i \in 1..n : Rank(i) = r]]

\* ReceiptCanon._canon_value
RECURSIVE canon_value(_)
canon_value(value) ==
    CASE value[1] = "dict" ->
            LET s == sorted_items(value[2])
            IN PyList([i \in 1..Len(s) |-> PyList(<<PyStr(s[i][1]), canon_value(s[i][2])>>)])
      [] value[1] = "list" -> PyList([i \in 1..Len(value[2]) |-> canon_value(value[2][i])])
      [] value[1] = "str" -> IF startswith(value[2], <<"h", ":">>) THEN value ELSE canon(value)
      [] value[1] \in {"int", "bool"} -> canon(value)
      [] OTHER -> value

\* json.dumps(value, separators=(',', ':')) as the sequence of its characters
\* and punctuation
RECURSIVE json_dumps(_)
RECURSIVE json_join(_, _)
json_join(parts, k) ==
    IF k > Len(parts) THEN <<>>
    ELSE (IF k > 1 THEN <<",">> ELSE <<>>) \o parts[k] \o json_join(parts, k + 1)
json_dumps(value) ==
    CASE value[1] = "str" -> <<"\"">> \o value[2] \o <<"\"">>
      [] value[1] = "int" -> IntToStr(value[2])
      [] value[1] = "bool" -> <<IF value[2] THEN "true" ELSE "false">>
      [] value[1] = "list" ->
            <<"[">> \o json_join([i \in 1..Len(value[2]) |-> json_dumps(value[2][i])], 1) \o <<"]">>
      [] value[1] = "dict" ->
            <<"{">> \o json_join([i \in 1..Len(value[2]) |->
                        <<"\"">> \o value[2][i][1] \o <<"\"", ":">> \o json_dumps(value[2][i][2])], 1) \o <<"}">>

\* the bytes of [canon_id, receipt_type, [[key, token], ...]] for the items
\* in the order given
canon_array(receipt_type, items) ==
    json_dumps(PyList(<<PyStr(CANON_RECEIPT_ID), PyStr(receipt_type),
                        PyList([i \in 1..Len(items) |-> PyList(<<PyStr(items[i][1]), canon_value(items[i][2])>>)])>>))

\* ReceiptCanon.canon_receipt(receipt_type, fields, strict)
canon_receipt(self, receipt_type, fields, strict) ==
    IF strict /\ \E i \in 1..Len(fields) : fields[i][1] \notin self.known_keys
    THEN Error("ValueError")
    ELSE Value(canon_array(receipt_type, sorted_items(fields)))

\* ReceiptCanon.receipt_hash: canon_receipt with strict left at its default
receipt_hash(self, receipt_type, fields) ==
    LET canon_bytes == canon_receipt(self, receipt_type, fields, TRUE)
    IN IF canon_bytes.raised THEN canon_bytes ELSE Value(sha3_256(canon_bytes.value))

----------------------------------------------------------------------------
(* ReceiptCanon calls over bounded field dicts *)

MaxFields == 3

DefaultKnownKeys ==
    {<<"r", "e", "c", "e", "i", "p", "t", "_", "t", "y", "p", "e">>, <<"s", "t", "a", "t", "e", "_", "h", "a", "s", "h", "_", "b", "e", "f", "o", "r", "e">>, <<"s", "t", "a", "t", "e", "_", "h", "a", "s", "h", "_", "a", "f", "t", "e", "r">>,
     <<"d", "e", "b", "t", "_", "b", "e", "f", "o", "r", "e">>, <<"d", "e", "b", "t", "_", "a", "f", "t", "e", "r">>, <<"o", "p", "e", "r", "a", "t", "i", "o", "n", "s">>,
     <<"b", "a", "t", "c", "h", "_", "i", "d">>, <<"t", "i", "m", "e", "s", "t", "a", "m", "p">>, <<"p", "o", "l", "i", "c", "y", "_", "d", "i", "g", "e", "s", "t">>}
ReceiptCanon(strict_mode) == [strict_mode |-> strict_mode, known_keys |-> DefaultKnownKeys]

SuppliedKeys == {<<"d", "e", "b", "t", "_", "b", "e", "f", "o", "r", "e">>, <<"d", "e", "b", "t", "_", "a", "f", "t", "e", "r">>, <<"z", "e", "b", "r", "a">>, <<"a", "p", "p", "l", "e">>}
SuppliedFieldValues == {PyInt(1), PyStr(<<"h", ":", "a", "b">>)}
\* dicts: distinct keys in some insertion order
FieldDicts ==
    {d \in UNION {[1..n -> SuppliedKeys \X SuppliedFieldValues] : n \in 0..MaxFields} :
        \A i \in 1..Len(d), j \in 1..Len(d) : i # j => d[i][1] # d[j][1]}

\* canon_receipt(receipt_type, fields): strict not passed, so True
CanonReceipt == \E receipt_type \in {OP_LOCAL, OP_COMMIT} :
    /\ rc_out = <<>>
    /\ rc_out' = <<"canon_receipt", receipt_type, TRUE, canon_receipt(rc_self, receipt_type, rc_fields, TRUE)>>
    /\ UNCHANGED <<outsideReceiptCanonVars, rc_self, rc_fields>>

\* canon_receipt(receipt_type, fields, strict=False)
CanonReceiptNotStrict == \E receipt_type \in {OP_LOCAL, OP_COMMIT} :
    /\ rc_out = <<>>
    /\ rc_out' = <<"canon_receipt", receipt_type, FALSE, canon_receipt(rc_self, receipt_type, rc_fields, FALSE)>>
    /\ UNCHANGED <<outsideReceiptCanonVars, rc_self, rc_fields>>

ReceiptHash == \E receipt_type \in {OP_LOCAL, OP_COMMIT} :
    /\ rc_out = <<>>
    /\ rc_out' = <<"receipt_hash", receipt_type, TRUE, receipt_hash(rc_self, receipt_type, rc_fields)>>
    /\ UNCHANGED <<outsideReceiptCanonVars, rc_self, rc_fields>>

InitReceiptCanon ==
    /\ OutsideReceiptCanonIdle
    /\ rc_self \in {ReceiptCanon(strict_mode) : strict_mode \in BOOLEAN}
    /\ rc_fields \in FieldDicts
    /\ rc_out = <<>>

NextReceiptCanon == CanonReceipt \/ CanonReceiptNotStrict \/ ReceiptHash

SpecReceiptCanon == InitReceiptCanon /\ [][NextReceiptCanon]_vars

----------------------------------------------------------------------------
(* ReceiptCanon: claim C25 *)

HasUnknownKey == \E i \in 1..Len(rc_fields) : rc_fields[i][1] \notin rc_self.known_keys
\* the dicts with the items of rc_fields in every insertion order
Arrangements ==
    LET items == {rc_fields[i] : i \in 1..Len(rc_fields)}
    IN {d \in [1..Len(rc_fields) -> items] : {d[i] : i \in 1..Len(d)} = items}
Ascending(d) == \A i \in 1..Len(d), j \in 1..Len(d) : i < j => BytesLess(d[i][1], d[j][1])

\* C25: a ReceiptCanon with strict checking on raises for fields with a key
\* outside known_keys; a ReceiptCanon built with strict_mode=False accepts
\* the same fields; every accepted output lists the pairs in ascending key
\* bytes and is the same for every insertion order of the fields.
C25_StrictMode ==
    rc_out # <<>> =>
        LET op == rc_out[1]
            strict == rc_out[3]
            result == rc_out[4]
        IN /\ (rc_self.strict_mode /\ strict /\ HasUnknownKey) => result.raised
           /\ ~rc_self.strict_mode => ~result.raised
           /\ (~result.raised /\ op = "canon_receipt") =>
                /\ \E d \in Arrangements : Ascending(d) /\ result.value = canon_array(rc_out[2], d)
                /\ \A d \in Arrangements : canon_receipt(rc_self, rc_out[2], d, strict) = result
           /\ (~result.raised /\ op = "receipt_hash") =>
                \A d \in Arrangements : receipt_hash(rc_self, rc_out[2], d) = result

----------------------------------------------------------------------------
(* The first receipt of a chain: appended to an empty ReceiptChain, and    *)
(* verified by the ReplayVerifier                                          *)

\* receipts a caller may hand to an empty chain: created with the genesis
\* hash or another hash as predecessor, as created, resealed or forged
FirstStepCandidates ==
    ReceiptsAfter(<<>>) \cup {Reseal(r) : r \in ReceiptsAfter(<<>>)}
FirstCommitCandidates ==
    CommitsAfter(<<>>) \cup {[r EXCEPT !.commit_hash = commit_compute_hash(r)] : r \in CommitsAfter(<<>>)}

AddFirstStep == \E receipt \in FirstStepCandidates :
    /\ step_receipts = <<>>
    /\ ~verdict.done
    /\ add_step_receipt(receipt)
    /\ UNCHANGED <<producerVars, verifierVars, kernelVars>>

AddFirstCommit == \E receipt \in FirstCommitCandidates :
    /\ commit_receipts = <<>>
    /\ ~verdict.done
    /\ add_commit_receipt(receipt)
    /\ UNCHANGED <<producerVars, verifierVars, kernelVars>>

NextFirstReceipt == AddFirstStep \/ AddFirstCommit \/ Verify

SpecFirstReceipt == InitVerify /\ [][NextFirstReceipt]_vars

----------------------------------------------------------------------------
(* ExecPlan (src/nk2/exec_plan.py) and GreedyCurvScheduler                 *)
(* (src/nk2/scheduler.py)                                                  *)

PENDING == "pending"
COMPLETED == "completed"
FAILED == "failed"
SKIPPED == "skipped"

\* OpSpec: the fields the scheduler and the failure handler read
OpSpec(op_id, status, depends_on) == [op_id |-> op_id, status |-> status, depends_on |-> depends_on]

\* op_id.encode('utf-8') as a sort key, for the op ids used here
OpIdKey(op_id) ==
    CASE op_id = "op:001" -> 1
      [] op_id = "op:002" -> 2
      [] op_id = "op:003" -> 3
      [] op_id = "op:004" -> 4
      [] op_id = "op:005" -> 5
      [] OTHER -> 9

\* ExecPlan.get_op: <<op>>, or <<>> for None
get_op(operations, op_id) ==
    LET found == SelectSeq(operations, LAMBDA op : op.op_id = op_id)
    IN IF found = <<>> THEN <<>> ELSE <<found[1]>>

\* PENDING with every dependency present and COMPLETED
deps_met(operations, op) ==
    \A dep_id \in op.depends_on :
        get_op(operations, dep_id) # <<>> /\ get_op(operations, dep_id)[1].status = COMPLETED

\* ExecPlan.get_ready_ops
get_ready_ops(operations) ==
    SelectSeq(operations, LAMBDA op : op.status = PENDING /\ deps_met(operations, op))

\* ready_ops.sort(key=lambda op: op.op_id.encode('utf-8'))
sort_by_op_id(ops) == sorted(ops, [i \in 1..Len(ops) |-> OpIdKey(ops[i].op_id)])

\* curvature_map.get(op_id, 0.0); the map is a set of <<op_id, curvature>>
curvature(curvature_map, op_id) ==
    IF \E e \in curvature_map : e[1] = op_id
    THEN (CHOOSE e \in curvature_map : e[1] = op_id)[2]
    ELSE 0

\* GreedyCurvScheduler._select_op (curvatures are not below -1 here, so the
\* candidates list is never empty)
select_op(ready_ops, curvature_map) ==
    IF Len(ready_ops) = 1 THEN ready_ops[1]
    ELSE LET curvs == {curvature(curvature_map, ready_ops[i].op_id) : i \in 1..Len(ready_ops)} \cup {-1}
             max_curv == CHOOSE c \in curvs : \A d \in curvs : d <= c
             candidates == SelectSeq(ready_ops, LAMBDA op : curvature(curvature_map, op.op_id) = max_curv)
         IN sort_by_op_id(candidates)[1]

\* Batch(batch_id=f"batch:{n}"), Batch.add_operation and Batch.compute_cost
Batch(n) == [batch_id |-> n, operations |-> <<>>, append_log |-> <<>>, total_cost |-> 0]
RECURSIVE cost_of(_, _)
cost_of(operations, curvature_map) ==
    IF operations = <<>> THEN 0
    ELSE curvature(curvature_map, operations[1]) + cost_of(Tail(operations), curvature_map)
add_operation(batch, op, curvature_map) ==
    [batch EXCEPT !.operations = Append(@, op.op_id),
                  !.append_log = Append(@, op.op_id),
                  !.total_cost = cost_of(Append(batch.operations, op.op_id), curvature_map)]

\* list.remove: drops the first element equal to op (OpSpec.__eq__ compares
\* op_id)
RECURSIVE remove(_, _)
remove(ops, op) ==
    IF ops = <<>> THEN <<>>
    ELSE IF ops[1].op_id = op.op_id THEN Tail(ops)
    ELSE <<ops[1]>> \o remove(Tail(ops), op)

\* the "update dependencies" loop of schedule from position k of
\* exec_plan.operations on
RECURSIVE update_ready(_, _, _)
update_ready(operations, ready_ops, k) ==
    IF k > Len(operations) THEN ready_ops
    ELSE LET op == operations[k]
             in_ready == \E i \in 1..Len(ready_ops) : ready_ops[i].op_id = op.op_id
         IN IF op.status = PENDING /\ deps_met(operations, op) /\ ~in_ready
            THEN update_ready(operations, sort_by_op_id(Append(ready_ops, op)), k + 1)
            ELSE update_ready(operations, ready_ops, k + 1)

----------------------------------------------------------------------------
(* One call of schedule over bounded plans *)

MaxOps == 3
MaxPlacements == 4

OpIds == <<"op:001", "op:002", "op:003", "op:004", "op:005">>
\* an operation's dependencies: none, the operation before it, or an
\* operation the plan does not hold
DependsOn(k) == {{}, {"op:009"}} \cup (IF k > 1 THEN {{OpIds[k - 1]}} ELSE {})
\* plans: operations sorted by op_id, as ExecPlan.__post_init__ leaves them
Plans ==
    UNION {{p \in [1..n -> [op_id : {OpIds[k] : k \in 1..n}, status : {PENDING, COMPLETED}, depends_on : UNION {DependsOn(k) : k \in 1..n}]] :
                \A k \in 1..n : p[k].op_id = OpIds[k] /\ p[k].depends_on \in DependsOn(k)} : n \in 0..MaxOps}
CurvatureMaps == {{<<"op:002", 2>>}, {<<"op:001", 1>>, <<"op:003", 1>>}, {}}

\* total number of operations placed in batches so far
Placed ==
    LET F[i \in 0..Len(s_batches)] == IF i = 0 THEN <<>> ELSE F[i - 1] \o s_batches[i].operations
    IN F[Len(s_batches)] \o (IF s_current = <<>> THEN <<>> ELSE s_current[1].operations)

\* schedule up to the while loop
ScheduleBegin ==
    /\ s_pc = "start"
    /\ s_ready' = sort_by_op_id(get_ready_ops(s_plan))
    /\ s_batches' = <<>>
    /\ s_current' = <<>>
    /\ s_pc' = "loop"
    /\ UNCHANGED <<outsideScheduleVars, s_plan, s_curv, s_max>>

\* one pass of the while loop; current_batch is <<>> for None
ScheduleLoop ==
    /\ s_pc = "loop"
    /\ s_ready # <<>>
    /\ Len(Placed) < MaxPlacements
    /\ LET selected_op == select_op(s_ready, s_curv)
           current == IF s_current = <<>> THEN Batch(Len(s_batches)) ELSE s_current[1]
           full == Len(current.operations) >= s_max
           batches == IF full THEN Append(s_batches, current) ELSE s_batches
           batch == IF full THEN Batch(Len(batches)) ELSE current
       IN /\ s_batches' = batches
          /\ s_current' = <<add_operation(batch, selected_op, s_curv)>>
          /\ s_ready' = update_ready(s_plan, remove(s_ready, selected_op), 1)
    /\ UNCHANGED <<outsideScheduleVars, s_plan, s_curv, s_max, s_pc>>

\* the loop has ended: the final batch is added and batches returned
ScheduleReturn ==
    /\ s_pc = "loop"
    /\ s_ready = <<>>
    /\ s_batches' = IF s_current # <<>> /\ s_current[1].operations # <<>> THEN Append(s_batches, s_current[1]) ELSE s_batches
    /\ s_current' = <<>>
    /\ s_pc' = "done"
    /\ UNCHANGED <<outsideScheduleVars, s_plan, s_curv, s_max, s_ready>>

InitSchedule ==
    /\ OutsideScheduleIdle
    /\ s_plan \in Plans
    /\ s_curv \in CurvatureMaps
    /\ s_max \in {1, 2}
    /\ s_ready = <<>>
    /\ s_batches = <<>>
    /\ s_current = <<>>
    /\ s_pc = "start"

NextSchedule == ScheduleBegin \/ ScheduleLoop \/ ScheduleReturn

SpecSchedule == InitSchedule /\ [][NextSchedule]_vars

\* C29: schedule places every ready operation in exactly one batch and no
\* operation that is not ready: no operation id occurs twice among the
\* operations placed so far, every placed operation is a ready operation of
\* the plan, and in the returned batches every ready operation occurs, in
\* order of decreasing curvature with ties by ascending op_id, no batch is
\* empty or longer than max_batch_size, and each append_log lists the ids of
\* its batch in the order added.
C29_ScheduleSound ==
    LET ready == get_ready_ops(s_plan)
        ready_ids == {ready[i].op_id : i \in 1..Len(ready)}
        placed == Placed
    IN s_pc \in {"loop", "done"} =>
        /\ \A i, j \in 1..Len(placed) : i # j => placed[i] # placed[j]
        /\ \A i \in 1..Len(placed) : placed[i] \in ready_ids
        /\ s_pc = "done" =>
            /\ \A id \in ready_ids : \E i \in 1..Len(placed) : placed[i] = id
            /\ \A i, j \in 1..Len(placed) : i < j =>
                   \/ curvature(s_curv, placed[i]) > curvature(s_curv, placed[j])
                   \/ /\ curvature(s_curv, placed[i]) = curvature(s_curv, placed[j])
                      /\ OpIdKey(placed[i]) < OpIdKey(placed[j])
            /\ \A b \in 1..Len(s_batches) :
                   /\ s_batches[b].operations # <<>>
                   /\ Len(s_batches[b].operations) <= s_max
                   /\ s_batches[b].append_log = s_batches[b].operations

----------------------------------------------------------------------------
(* FailureHandler (src/nk2/failure_handling.py) *)

FailureInfo(op_id, failure_type, is_singleton) ==
    [op_id |-> op_id, failure_type |-> failure_type, is_singleton |-> is_singleton]

pending_count(operations) == Len(SelectSeq(operations, LAMBDA op : op.status = PENDING))

\* FailureHandler._is_singleton_failure
is_singleton_failure(operations, failed_op) ==
    pending_count(operations) = 1 /\ failed_op.status = PENDING

\* FailureHandler._handle_singleton_halt: the first PENDING operation of the
\* plan becomes FAILED
handle_singleton_halt(operations, failure) ==
    LET pending == {k \in 1..Len(operations) : operations[k].status = PENDING}
    IN IF pending = {} THEN operations
       ELSE LET first == CHOOSE k \in pending : \A j \in pending : k <= j
            IN [operations EXCEPT ![first].status = FAILED]

\* _handle_reschedule without the marking of dependents
handle_reschedule_keep_dependents(operations, failure) ==
    [k \in 1..Len(operations) |->
        IF operations[k].op_id = failure.op_id
        THEN [operations[k] EXCEPT !.status = FAILED]
        ELSE operations[k]]

\* FailureHandler._handle_reschedule: the operation named by the failure
\* becomes FAILED, then every PENDING operation listing it in depends_on
\* becomes SKIPPED
handle_reschedule(operations, failure) ==
    LET marked == [k \in 1..Len(operations) |->
                      IF operations[k].op_id = failure.op_id
                      THEN [operations[k] EXCEPT !.status = FAILED]
                      ELSE operations[k]]
    IN [k \in 1..Len(marked) |->
           IF marked[k].status = PENDING /\ failure.op_id \in marked[k].depends_on
           THEN [marked[k] EXCEPT !.status = SKIPPED]
           ELSE marked[k]]

\* FailureHandler.should_halt
should_halt(failures, operations) ==
    \/ \E i \in 1..Len(failures) : failures[i].is_singleton
    \/ \A k \in 1..Len(operations) : operations[k].status \in {COMPLETED, FAILED, SKIPPED}

----------------------------------------------------------------------------
(* Sequences of handle_failure calls on bounded plans *)

MaxFailures == 3

FailureTypes == {"kernel_error", "delta_bound"}
\* an operation depends on nothing, on the operation before it, or on the
\* first operation
FailureDependsOn(k) ==
    {{}} \cup (IF k > 1 THEN {{OpIds[k - 1]}} ELSE {}) \cup (IF k > 2 THEN {{OpIds[1]}} ELSE {})
FailurePlans ==
    UNION {{p \in [1..n -> [op_id : {OpIds[k] : k \in 1..n}, status : {PENDING, COMPLETED}, depends_on : UNION {FailureDependsOn(k) : k \in 1..n}]] :
                \A k \in 1..n : p[k].op_id = OpIds[k] /\ p[k].depends_on \in FailureDependsOn(k)} : n \in 1..MaxOps}

\* handle_failure(exec_plan, failed_op, failure_type) for an operation of the
\* plan
HandleFailure ==
    /\ f_plan # <<>>
    /\ Len(f_failures) < MaxFailures
    /\ \E k \in 1..Len(f_plan), failure_type \in FailureTypes :
        LET failed_op == f_plan[k]
            failure == FailureInfo(failed_op.op_id, failure_type, is_singleton_failure(f_plan, failed_op))
        IN /\ f_failures' = Append(f_failures, failure)
           /\ f_plan' = IF failure.is_singleton
                        THEN handle_singleton_halt(f_plan, failure)
                        ELSE handle_reschedule(f_plan, failure)
    /\ f_halt' = <<>>
    /\ UNCHANGED outsideFailureVars

\* should_halt(exec_plan)
ShouldHalt ==
    /\ f_plan # <<>>
    /\ f_halt = <<>>
    /\ f_halt' = <<should_halt(f_failures, f_plan)>>
    /\ UNCHANGED <<outsideFailureVars, f_plan, f_failures>>

InitFailure ==
    /\ OutsideFailureIdle
    /\ f_plan \in FailurePlans
    /\ f_failures = <<>>
    /\ f_halt = <<>>

NextFailure == HandleFailure \/ ShouldHalt

SpecFailure == InitFailure /\ [][NextFailure]_vars

\* the operation a handle_failure step was called for, and whether it was the
\* only PENDING operation of the plan
Called == Len(f_failures') = Len(f_failures) + 1
FailedIndex == CHOOSE k \in 1..Len(f_plan) : f_plan[k].op_id = f_failures'[Len(f_failures')].op_id
OnlyPending(k) ==
    f_plan[k].status = PENDING /\ \A j \in 1..Len(f_plan) : f_plan[j].status = PENDING => j = k

\* C30: over sequences of handle_failure calls, an operation that is FAILED or
\* SKIPPED never becomes PENDING again; a call for the only PENDING operation
\* leaves it FAILED and should_halt True, and should_halt stays True from then
\* on; any other call leaves the failed operation FAILED and every operation
\* that was PENDING and depends on it SKIPPED; and in every state no PENDING
\* operation depends on a FAILED one.
C30_NoRetryTerminalHalt ==
    /\ [][\A k \in 1..Len(f_plan) :
              f_plan[k].status \in {FAILED, SKIPPED} => f_plan'[k].status # PENDING]_vars
    /\ [][Called =>
              LET k == FailedIndex
              IN /\ f_plan'[k].status = FAILED
                 /\ OnlyPending(k) => should_halt(f_failures', f_plan')
                 /\ ~OnlyPending(k) =>
                        \A j \in 1..Len(f_plan) :
                            (j # k /\ f_plan[j].status = PENDING /\ f_plan[k].op_id \in f_plan[j].depends_on)
                                => f_plan'[j].status = SKIPPED]_vars
    /\ [][(\E i \in 1..Len(f_failures) : f_failures[i].is_singleton) /\ should_halt(f_failures, f_plan)
              => should_halt(f_failures', f_plan')]_vars
    /\ [](\A j, k \in 1..Len(f_plan) :
              (f_plan[j].status = PENDING /\ f_plan[k].op_id \in f_plan[j].depends_on)
                  => f_plan[k].status # FAILED)

\* a run in which one failure skipped a dependent, a later failure hit the only
\* PENDING operation, another call followed, and should_halt answered True
C30_Witness ==
    /\ \E i \in 1..Len(f_failures) : f_failures[i].is_singleton /\ i < Len(f_failures)
    /\ \E k \in 1..Len(f_plan) : f_plan[k].status = SKIPPED
    /\ f_halt = <<TRUE>>

====
